---- MODULE Spec2Model ----
(***************************************************************************)
(* claude-reflections: incremental ingestion of append-only JSONL          *)
(* conversation logs (indexer.py), the per-project progress tracker        *)
(* (state.py), the embedded vector store (search.py) and the ingestion     *)
(* coordinators (cli.py, server.py).                                       *)
(*                                                                         *)
(* A log file is a sequence of bytes.  A byte is a record [k, id]: k is    *)
(* the character class and id the uuid that the JSON text carries when     *)
(* the byte stands for the body of a JSON object.  A JSON object line is   *)
(* the two bytes  Open, Body(kind, uuid)  so that a half-written line      *)
(* (only Open, or only the body) is not valid JSON.                        *)
(***************************************************************************)
EXTENDS Integers, Sequences, FiniteSets, TLC

\* ------------------------------------------------------------------ bounds
\* Lines of a file drawn for the scanner specification.
MaxLines == 3
\* Lines of the file at the first run of the two-run specification, and the
\* records appended before the second run.
MaxFirstLines == 2
MaxAppend == 1

\* ------------------------------------------------------------------- bytes
Byte(k, id) == [k |-> k, id |-> id]
NL == Byte("\n", 0)
Space == Byte(" ", 0)
Open == Byte("{", 0)
Digit == Byte("7", 0)

\* Kinds of JSON object body:
\*   u  {"type":"user","uuid":id,"message":{"content":"hi"}}
\*   a  {"type":"assistant","uuid":id,"message":{"content":[thinking,text]}}
\*   k  {"type":"assistant","uuid":id,"message":{"content":[thinking]}}
\*   w  {"type":"user","uuid":id,"message":{"content":" "}}
\*   s  {"type":"file-history-snapshot","uuid":id,"message":{"content":"hi"}}
\*   m  {"type":"user","uuid":id}
\*   x  {"type":"user","uuid":id,"message":null}
BodyKinds == {"u", "a", "k", "w", "s", "m", "x"}

IsWhitespace(b) == b.k \in {"\n", " "}

\* str.strip() of a decoded line.
RECURSIVE lstrip(_)
lstrip(s) ==
    IF s = <<>> THEN s
    ELSE IF IsWhitespace(Head(s)) THEN lstrip(Tail(s)) ELSE s

RECURSIVE rstrip(_)
rstrip(s) ==
    IF s = <<>> THEN s
    ELSE IF IsWhitespace(s[Len(s)]) THEN rstrip(SubSeq(s, 1, Len(s) - 1)) ELSE s

strip(s) == rstrip(lstrip(s))

\* -------------------------------------------------------------- JSON values
\* Text is a sequence of one-character strings.
NoContent == [t |-> "missing", s |-> <<>>, blocks |-> <<>>]
NullContent == [t |-> "null", s |-> <<>>, blocks |-> <<>>]
StrContent(s) == [t |-> "str", s |-> s, blocks |-> <<>>]
ListContent(blocks) == [t |-> "list", s |-> <<>>, blocks |-> blocks]
Block(type, text) == [type |-> type, text |-> text]

NoMessage == [t |-> "missing", content |-> NoContent]
NullMessage == [t |-> "null", content |-> NoContent]
ObjMessage(content) == [t |-> "obj", content |-> content]

JsonObject(type, uuid, message) ==
    [isObject |-> TRUE, type |-> type, uuid |-> uuid, message |-> message]
JsonNumber == [isObject |-> FALSE, type |-> "", uuid |-> 0, message |-> NoMessage]

ThinkingBlock == Block("thinking", <<"h", "m">>)
TextBlock == Block("text", <<"o", "k">>)

BodyValue(b) ==
    CASE b.k = "u" -> JsonObject("user", b.id, ObjMessage(StrContent(<<"h", "i">>)))
      [] b.k = "a" -> JsonObject("assistant", b.id,
                                 ObjMessage(ListContent(<<ThinkingBlock, TextBlock>>)))
      [] b.k = "k" -> JsonObject("assistant", b.id,
                                 ObjMessage(ListContent(<<ThinkingBlock>>)))
      [] b.k = "w" -> JsonObject("user", b.id, ObjMessage(StrContent(<<" ">>)))
      [] b.k = "s" -> JsonObject("file-history-snapshot", b.id,
                                 ObjMessage(StrContent(<<"h", "i">>)))
      [] b.k = "m" -> JsonObject("user", b.id, NoMessage)
      [] b.k = "x" -> JsonObject("user", b.id, NullMessage)

\* json.loads: [ok, val]; ok = FALSE is json.JSONDecodeError.
json_loads(text) ==
    IF Len(text) = 2 /\ text[1] = Open /\ text[2].k \in BodyKinds
    THEN [ok |-> TRUE, val |-> BodyValue(text[2])]
    ELSE IF Len(text) = 1 /\ text[1] = Digit
    THEN [ok |-> TRUE, val |-> JsonNumber]
    ELSE [ok |-> FALSE, val |-> JsonNumber]

\* ------------------------------------------------------------ indexer.py
\* "\n".join(parts)
RECURSIVE join(_)
join(parts) ==
    IF parts = <<>> THEN <<>>
    ELSE IF Len(parts) = 1 THEN parts[1]
    ELSE parts[1] \o <<"\n">> \o join(Tail(parts))

\* text_parts that takes the text of every block, whatever its type.
RECURSIVE text_parts_AllBlocks(_)
text_parts_AllBlocks(blocks) ==
    IF blocks = <<>> THEN <<>>
    ELSE <<Head(blocks).text>> \o text_parts_AllBlocks(Tail(blocks))

RECURSIVE text_parts(_)
text_parts(blocks) ==
    IF blocks = <<>> THEN <<>>
    ELSE IF Head(blocks).type = "text"
         THEN <<Head(blocks).text>> \o text_parts(Tail(blocks))
         ELSE text_parts(Tail(blocks))

\* [raised, text]; iterating a null content raises TypeError.
extract_text_content(message_content) ==
    CASE message_content.t = "str" -> [raised |-> FALSE, text |-> message_content.s]
      [] message_content.t = "list" ->
            [raised |-> FALSE, text |-> join(text_parts(message_content.blocks))]
      [] message_content.t = "missing" -> [raised |-> FALSE, text |-> <<>>]
      [] message_content.t = "null" -> [raised |-> TRUE, text |-> <<>>]

\* str.strip() of a content text is empty.
IsBlank(text) == \A i \in 1..Len(text) : text[i] \in {" ", "\n"}

\* parse_jsonl_line without the check of the record type.
parse_jsonl_line_AnyType(line) ==
    LET l == strip(line)
        d == json_loads(l)
    IN  IF l = <<>> THEN [res |-> "none", data |-> JsonNumber]
        ELSE IF ~d.ok THEN [res |-> "none", data |-> JsonNumber]
        ELSE IF ~d.val.isObject THEN [res |-> "raise", data |-> JsonNumber]
        ELSE [res |-> "data", data |-> d.val]

\* [res, data]: res = "none" (skip), "data", or "raise" (data.get on a value
\* that is not an object: AttributeError).
parse_jsonl_line(line) ==
    LET l == strip(line)
        d == json_loads(l)
    IN  IF l = <<>> THEN [res |-> "none", data |-> JsonNumber]
        ELSE IF ~d.ok THEN [res |-> "none", data |-> JsonNumber]
        ELSE IF ~d.val.isObject THEN [res |-> "raise", data |-> JsonNumber]
        ELSE IF d.val.type \notin {"user", "assistant"}
             THEN [res |-> "none", data |-> JsonNumber]
        ELSE [res |-> "data", data |-> d.val]

\* f.readline() at position pos (0-based): the position after the line.
RECURSIVE readline(_, _)
readline(data, pos) ==
    IF pos >= Len(data) THEN pos
    ELSE IF data[pos + 1] = NL THEN pos + 1
    ELSE readline(data, pos + 1)

\* Lines 93-97: count lines from the start until tell() >= start_offset.
RECURSIVE count_lines(_, _, _, _)
count_lines(data, pos, line_number, start_offset) ==
    IF pos >= Len(data) THEN line_number
    ELSE LET next == readline(data, pos)
         IN  IF next >= start_offset THEN line_number + 1
             ELSE count_lines(data, next, line_number + 1, start_offset)

IndexableMessage(uuid, role, content, file_path, line_number, byte_offset) ==
    [uuid |-> uuid, role |-> role, content |-> content, file_path |-> file_path,
     line_number |-> line_number, byte_offset |-> byte_offset]

\* The read loop taking the end of the data for an error.
RECURSIVE read_loop_RaiseAtEnd(_, _, _, _)
read_loop_RaiseAtEnd(file_path, data, pos, line_number) ==
    LET byte_offset == pos
        next == readline(data, pos)
        line_bytes == SubSeq(data, pos + 1, next)
        parsed == parse_jsonl_line(line_bytes)
        message == parsed.data.message
        extracted == extract_text_content(message.content)
        rest == read_loop_RaiseAtEnd(file_path, data, next, line_number + 1)
    IN  IF line_bytes = <<>> THEN [items |-> <<>>, raised |-> TRUE]
        ELSE IF parsed.res = "raise" THEN [items |-> <<>>, raised |-> TRUE]
        ELSE IF parsed.res = "none" THEN rest
        ELSE IF message.t = "null" THEN [items |-> <<>>, raised |-> TRUE]
        ELSE IF extracted.raised THEN [items |-> <<>>, raised |-> TRUE]
        ELSE IF IsBlank(extracted.text) THEN rest
        ELSE [items |-> <<IndexableMessage(parsed.data.uuid, parsed.data.type,
                                           extracted.text, file_path,
                                           line_number + 1, byte_offset)>>
                        \o rest.items,
              raised |-> rest.raised]

\* Lines 102-133: the read loop.  [items, raised].
RECURSIVE read_loop(_, _, _, _)
read_loop(file_path, data, pos, line_number) ==
    LET byte_offset == pos
        next == readline(data, pos)
        line_bytes == SubSeq(data, pos + 1, next)
        parsed == parse_jsonl_line(line_bytes)
        message == parsed.data.message
        extracted == extract_text_content(message.content)
        rest == read_loop(file_path, data, next, line_number + 1)
    IN  IF line_bytes = <<>> THEN [items |-> <<>>, raised |-> FALSE]
        ELSE IF parsed.res = "raise" THEN [items |-> <<>>, raised |-> TRUE]
        ELSE IF parsed.res = "none" THEN rest
        ELSE IF message.t = "null" THEN [items |-> <<>>, raised |-> TRUE]
        ELSE IF extracted.raised THEN [items |-> <<>>, raised |-> TRUE]
        ELSE IF IsBlank(extracted.text) THEN rest
        ELSE [items |-> <<IndexableMessage(parsed.data.uuid, parsed.data.type,
                                           extracted.text, file_path,
                                           line_number + 1, byte_offset)>>
                        \o rest.items,
              raised |-> rest.raised]

\* [items, raised]: the items yielded, and whether the generator then raised.
iter_new_messages(file_path, data, start_offset) ==
    LET line_number == IF start_offset > 0
                       THEN count_lines(data, 0, 0, start_offset)
                       ELSE 0
        pos == IF start_offset > 0 THEN readline(data, start_offset) ELSE 0
    IN  read_loop(file_path, data, pos, line_number)

get_final_offset(data) == Len(data)

\* -------------------------------------------------------------- state.py
\* The project name, a sequence of characters.
Project == <<"-", "h", "-", "p">>

RECURSIVE replace(_, _, _)
replace(str, old, new) ==
    IF str = <<>> THEN <<>>
    ELSE <<IF Head(str) = old THEN new ELSE Head(str)>> \o replace(Tail(str), old, new)

RECURSIVE lstrip_char(_, _)
lstrip_char(str, c) ==
    IF str = <<>> THEN str
    ELSE IF Head(str) = c THEN lstrip_char(Tail(str), c) ELSE str

\* _project_dir: the name of the project's state directory under base_dir,
\* which holds its state.json and its vectors.db.
project_dir(project) == lstrip_char(replace(project, "/", "-"), "-")

\* f"reflections_{safe_name}"
default_collection_name(project) ==
    <<"reflections_">> \o lstrip_char(replace(replace(project, "/", "-"), "-", "_"), "_")

\* FileState(): the dataclass defaults; last_indexed 0 is the empty string.
FileState == [last_byte_offset |-> 0, indexed_count |-> 0, last_indexed |-> 0]

FileState_to_dict(fs) ==
    [last_byte_offset |-> fs.last_byte_offset,
     indexed_count |-> fs.indexed_count,
     last_indexed |-> fs.last_indexed]

FileState_from_dict(data) ==
    [last_byte_offset |-> data.last_byte_offset,
     indexed_count |-> data.indexed_count,
     last_indexed |-> data.last_indexed]

ProjectState_to_dict(state) ==
    [collection_name |-> state.collection_name,
     files |-> [name \in DOMAIN state.files |-> FileState_to_dict(state.files[name])]]

\* from_dict that reads the name under a key the document does not have.
ProjectState_from_dict_NoName(data) ==
    [collection_name |-> <<>>,
     files |-> [name \in DOMAIN data.files |-> FileState_from_dict(data.files[name])]]

ProjectState_from_dict(data) ==
    [collection_name |-> data.collection_name,
     files |-> [name \in DOMAIN data.files |-> FileState_from_dict(data.files[name])]]

\* state.json: absent, or the JSON document.
NoStateFile == [exists |-> FALSE, doc |-> [collection_name |-> <<>>, files |-> <<>>]]

load(state_file, project) ==
    IF ~state_file.exists
    THEN [collection_name |-> default_collection_name(project), files |-> <<>>]
    ELSE ProjectState_from_dict(state_file.doc)

save(state_file, project, state) ==
    [exists |-> TRUE, doc |-> ProjectState_to_dict(state)]

\* Lines 118-124 with the count stored instead of added.
with_file_state_Overwrite(state, filename, byte_offset, new_count, now) ==
    LET files == [name \in DOMAIN state.files \cup {filename} |->
                    IF name \in DOMAIN state.files THEN state.files[name] ELSE FileState]
        file_state == [last_byte_offset |-> byte_offset,
                       indexed_count |-> new_count,
                       last_indexed |-> now]
    IN  [state EXCEPT !.files = [files EXCEPT ![filename] = file_state]]

\* Lines 118-124: the loaded state with the file's entry created when it is
\* missing and its three fields assigned.
with_file_state(state, filename, byte_offset, new_count, now) ==
    LET files == [name \in DOMAIN state.files \cup {filename} |->
                    IF name \in DOMAIN state.files THEN state.files[name] ELSE FileState]
        file_state == [last_byte_offset |-> byte_offset,
                       indexed_count |-> files[filename].indexed_count + new_count,
                       last_indexed |-> now]
    IN  [state EXCEPT !.files = [files EXCEPT ![filename] = file_state]]

\* update_file_state that stores new_count instead of adding it.
update_file_state_Overwrite(state_file, project, filename, byte_offset, new_count, now) ==
    LET state == load(state_file, project)
        files == [name \in DOMAIN state.files \cup {filename} |->
                    IF name \in DOMAIN state.files THEN state.files[name] ELSE FileState]
        file_state == [last_byte_offset |-> byte_offset,
                       indexed_count |-> new_count,
                       last_indexed |-> now]
    IN  save(state_file, project,
             [state EXCEPT !.files = [files EXCEPT ![filename] = file_state]])

\* update_file_state that writes a state holding the updated file alone.
update_file_state_OnlyThisFile(state_file, project, filename, byte_offset, new_count, now) ==
    LET state == load(state_file, project)
        file_state == [last_byte_offset |-> byte_offset,
                       indexed_count |-> (IF filename \in DOMAIN state.files
                                          THEN state.files[filename].indexed_count
                                          ELSE 0) + new_count,
                       last_indexed |-> now]
    IN  save(state_file, project,
             [state EXCEPT !.files = [name \in {filename} |-> file_state]])

\* The state file after update_file_state; now is datetime.now(UTC).
update_file_state(state_file, project, filename, byte_offset, new_count, now) ==
    save(state_file, project,
         with_file_state(load(state_file, project), filename, byte_offset, new_count, now))

\* get_file_offset that ignores the stored state.
get_file_offset_FromStart(state_file, project, filename) == 0

get_file_offset(state_file, project, filename) ==
    LET state == load(state_file, project)
    IN  IF filename \in DOMAIN state.files
        THEN state.files[filename].last_byte_offset
        ELSE 0

\* sum(fs.indexed_count for fs in state.files.values()) over the files names.
RECURSIVE sum_indexed_count(_, _)
sum_indexed_count(files, names) ==
    IF names = {} THEN 0
    ELSE LET name == CHOOSE n \in names : TRUE
         IN  files[name].indexed_count + sum_indexed_count(files, names \ {name})

\* get_stats that adds up the distinct counts.
get_stats_DistinctCounts(state_file, project) ==
    LET state == load(state_file, project)
        counts == {state.files[name].indexed_count : name \in DOMAIN state.files}
    IN  [project |-> project,
         collection_name |-> state.collection_name,
         files_tracked |-> Cardinality(DOMAIN state.files),
         total_indexed |->
             sum_indexed_count([c \in counts |-> [indexed_count |-> c]], counts)]

get_stats(state_file, project) ==
    LET state == load(state_file, project)
    IN  [project |-> project,
         collection_name |-> state.collection_name,
         files_tracked |-> Cardinality(DOMAIN state.files),
         total_indexed |-> sum_indexed_count(state.files, DOMAIN state.files)]

\* ------------------------------------------------------------- search.py
\* Characters of a message kept in the stored snippet, and embedded.
SnippetLen == 300
EmbedLen == 2000

Take(s, n) == SubSeq(s, 1, IF Len(s) < n THEN Len(s) ELSE n)

\* The embedding model is a library outside the repository.  Here a vector is
\* one number, the sum of the weights of the text's characters, and the cosine
\* distance of two vectors is their difference, in tenths: 10 is distance 1.0.
Weight(c) ==
    CASE c = "b" -> 3
      [] c = "c" -> 4
      [] OTHER -> 0

\* EmbeddingManager.embed(text)
RECURSIVE embed(_)
embed(text) ==
    IF text = <<>> THEN 0
    ELSE IF Len(text) = 1 THEN Weight(text[1])
    ELSE LET half == Len(text) \div 2
         IN  embed(SubSeq(text, 1, half)) + embed(SubSeq(text, half + 1, Len(text)))

\* EmbeddingManager.embed_batch(texts)
embed_batch(texts) == [i \in 1..Len(texts) |-> embed(texts[i])]

\* The class EmbeddingManager of one process: _instance (0 is None, otherwise
\* the number of the TextEmbedding object) and, as history, the number of
\* TextEmbedding objects constructed.
NoModel == [instance |-> 0, constructed |-> 0]

\* get_model in one step: the manager after the call.
get_model(manager) ==
    IF manager.instance = 0
    THEN [instance |-> manager.constructed + 1, constructed |-> manager.constructed + 1]
    ELSE manager

\* embed_batch without the test of an empty list.
embed_batch_call_NoGuard(manager, texts) ==
    [manager |-> get_model(manager), embeddings |-> embed_batch(texts), model_calls |-> 1]

\* embed_batch as a call: the manager after it, the list returned and the
\* number of calls of model.embed made.
embed_batch_call(manager, texts) ==
    IF texts = <<>>
    THEN [manager |-> manager, embeddings |-> <<>>, model_calls |-> 0]
    ELSE [manager |-> get_model(manager), embeddings |-> embed_batch(texts),
          model_calls |-> 1]

distance(a, b) == IF a < b THEN b - a ELSE a - b

\* 1.0, in tenths.
One == 10
\* score_threshold: float = 0.3
DefaultThreshold == 3

\* The vector table as the manager's connection sees it: absent, or its rows
\* in insertion order.  The first committed rows are in the database file for
\* every connection; the rows after them are in the connection's open
\* transaction.
NoTable == [exists |-> FALSE, rows |-> <<>>, committed |-> 0]

ensure_collection(db) == [db EXCEPT !.exists = TRUE]

Row(msg, embedding) ==
    [embedding |-> embedding,
     uuid |-> msg.uuid, file_path |-> msg.file_path, line_number |-> msg.line_number,
     role |-> msg.role,
     snippet |-> IF Len(msg.content) > SnippetLen
                 THEN Take(msg.content, SnippetLen) \o <<".", ".", ".">>
                 ELSE Take(msg.content, SnippetLen)]

\* A uuid that is not a JSON string or number but an array or an object:
\* sqlite3 cannot bind it as a parameter of the INSERT and raises.
Unbindable == -1
bindable(msg) == msg.uuid # Unbindable

\* zip without strict=True stops at the shorter list and raises nothing.
zip_raises_NotStrict(msgs, embeddings) == FALSE

\* zip(messages, embeddings, strict=True) raises ValueError when one list is
\* exhausted before the other.
zip_raises(msgs, embeddings) == Len(msgs) # Len(embeddings)

\* The insert loop over zip(messages, embeddings, strict=True): [rows, raised].
\* The rows inserted before an exception stay in the connection's open
\* transaction, where the statements of this manager see them.
RECURSIVE insert_rows(_, _, _)
insert_rows(rows, msgs, embeddings) ==
    IF msgs = <<>> \/ embeddings = <<>>
    THEN [rows |-> rows, raised |-> zip_raises(msgs, embeddings)]
    ELSE IF ~bindable(Head(msgs)) THEN [rows |-> rows, raised |-> TRUE]
    ELSE insert_rows(Append(rows, Row(Head(msgs), Head(embeddings))),
                     Tail(msgs), Tail(embeddings))

\* msg.content[:2000] for msg in messages
embed_texts(msgs) == [i \in 1..Len(msgs) |-> Take(msgs[i].content, EmbedLen)]

\* index_messages that goes on to ensure_collection with an empty list.
index_messages_given_NoEarlyReturn(db, msgs, embeddings) ==
    LET inserted == insert_rows(db.rows, msgs, embeddings)
    IN  [db |-> [ensure_collection(db) EXCEPT
                    !.rows = inserted.rows,
                    !.committed = IF inserted.raised THEN @ ELSE Len(inserted.rows)],
         count |-> IF inserted.raised THEN 0 ELSE Len(msgs),
         raised |-> inserted.raised,
         embedded |-> 1]

\* index_messages when embed_batch returns embeddings: [db, count, raised,
\* embedded], the table as this manager sees it after the call, the count
\* returned (0 when the call raised and returned nothing), and the number of
\* embed_batch calls made.
index_messages_given(db, msgs, embeddings) ==
    IF msgs = <<>> THEN [db |-> db, count |-> 0, raised |-> FALSE, embedded |-> 0]
    ELSE LET inserted == insert_rows(db.rows, msgs, embeddings)
         IN  [db |-> [ensure_collection(db) EXCEPT
                         !.rows = inserted.rows,
                         !.committed = IF inserted.raised THEN @
                                       ELSE Len(inserted.rows)],
              count |-> IF inserted.raised THEN 0 ELSE Len(msgs),
              raised |-> inserted.raised,
              embedded |-> 1]

\* index_messages with the embeddings of the repository's provider, one per text.
index_messages(db, msgs) ==
    index_messages_given(db, msgs, embed_batch(embed_texts(msgs)))

\* The row of the rowids in remaining that is nearest to the query; the library
\* decides between rows at the same distance, here the lower rowid.
Nearest(rows, query_embedding, remaining) ==
    CHOOSE i \in remaining : \A j \in remaining :
        \/ distance(rows[i].embedding, query_embedding)
              < distance(rows[j].embedding, query_embedding)
        \/ /\ distance(rows[i].embedding, query_embedding)
                 = distance(rows[j].embedding, query_embedding)
           /\ i <= j

\* SELECT distance, ... WHERE embedding MATCH ? AND k = ?: the k nearest rows,
\* nearest first.
RECURSIVE knn(_, _, _, _)
knn(rows, query_embedding, remaining, k) ==
    IF k = 0 \/ remaining = {} THEN <<>>
    ELSE LET i == Nearest(rows, query_embedding, remaining)
         IN  <<[distance |-> distance(rows[i].embedding, query_embedding),
                row |-> rows[i]]>>
                 \o knn(rows, query_embedding, remaining \ {i}, k - 1)

SearchResult(row, score) ==
    [uuid |-> row.uuid, file_path |-> row.file_path, line_number |-> row.line_number,
     role |-> row.role, snippet |-> row.snippet, score |-> score]

\* The threshold test that also drops a candidate exactly at the threshold.
below_threshold_Inclusive(similarity, score_threshold) == similarity <= score_threshold

\* The threshold test turned around.
below_threshold_Reversed(similarity, score_threshold) == similarity > score_threshold

\* if similarity < score_threshold: continue
below_threshold(similarity, score_threshold) == similarity < score_threshold

\* The loop that puts each result in front of the list instead of at its end.
RECURSIVE to_results_Prepend(_, _)
to_results_Prepend(fetched, score_threshold) ==
    IF fetched = <<>> THEN <<>>
    ELSE LET similarity == One - Head(fetched).distance
         IN  IF below_threshold(similarity, score_threshold)
             THEN to_results_Prepend(Tail(fetched), score_threshold)
             ELSE to_results_Prepend(Tail(fetched), score_threshold)
                      \o <<SearchResult(Head(fetched).row, similarity)>>

\* Lines 183-200: the fetched rows to results, filtered by the threshold.
RECURSIVE to_results(_, _)
to_results(fetched, score_threshold) ==
    IF fetched = <<>> THEN <<>>
    ELSE LET similarity == One - Head(fetched).distance
         IN  IF below_threshold(similarity, score_threshold)
             THEN to_results(Tail(fetched), score_threshold)
             ELSE <<SearchResult(Head(fetched).row, similarity)>>
                      \o to_results(Tail(fetched), score_threshold)

\* search that embeds the query before it looks for the table.
search_EmbedFirst(db, query, limit, score_threshold) ==
    IF ~db.exists THEN [results |-> <<>>, embedded |-> 1]
    ELSE [results |-> to_results(knn(db.rows, embed(query), 1..Len(db.rows), limit),
                                 score_threshold),
          embedded |-> 1]

\* [results, embedded]: the list returned and the number of calls of
\* EmbeddingManager.embed made.
search(db, query, limit, score_threshold) ==
    IF ~db.exists THEN [results |-> <<>>, embedded |-> 0]
    ELSE [results |-> to_results(knn(db.rows, embed(query), 1..Len(db.rows), limit),
                                 score_threshold),
          embedded |-> 1]

get_collection_stats(db) ==
    IF ~db.exists THEN [points_count |-> 0, status |-> "not_found"]
    ELSE [points_count |-> Len(db.rows), status |-> "ok"]

\* drop_collection that empties the table and leaves it in place.
drop_collection_DeleteRows(db) ==
    [exists |-> db.exists, rows |-> <<>>, committed |-> 0]

\* DROP TABLE IF EXISTS
drop_collection(db) == NoTable

\* ------------------------------------------------- cli.py, server.py: query
\* Indexes of scores from the lowest score down: sort without reverse=True.
RECURSIVE order_by_score_Ascending(_, _)
order_by_score_Ascending(scores, remaining) ==
    IF remaining = {} THEN <<>>
    ELSE LET i == CHOOSE i \in remaining : \A j \in remaining :
                      scores[i] < scores[j] \/ (scores[i] = scores[j] /\ i <= j)
         IN  <<i>> \o order_by_score_Ascending(scores, remaining \ {i})

\* list.sort(key=score, reverse=True): the indexes of scores from the highest
\* score down, equal scores in their order (the sort is stable).
RECURSIVE order_by_score(_, _)
order_by_score(scores, remaining) ==
    IF remaining = {} THEN <<>>
    ELSE LET i == CHOOSE i \in remaining : \A j \in remaining :
                      scores[i] > scores[j] \/ (scores[i] = scores[j] /\ i <= j)
         IN  <<i>> \o order_by_score(scores, remaining \ {i})

sort_by_score(items, scores) ==
    LET order == order_by_score(scores, 1..Len(items))
    IN  [i \in 1..Len(items) |-> items[order[i]]]

\* The loop over projects: every project's results, in the order of projects.
RECURSIVE collect(_, _, _, _)
collect(dbs, projects, query, limit) ==
    IF projects = <<>> THEN [results |-> <<>>, embedded |-> 0]
    ELSE LET found == search(dbs[Head(projects)], query, limit, DefaultThreshold)
             rest == collect(dbs, Tail(projects), query, limit)
         IN  [results |-> [i \in 1..Len(found.results) |->
                              [project |-> Head(projects), r |-> found.results[i]]]
                          \o rest.results,
              embedded |-> found.embedded + rest.embedded]

Outcome(results, embedded, raised, message, status) ==
    [results |-> results, embedded |-> embedded, raised |-> raised,
     message |-> message, status |-> status]

\* cmd_search, lines 110-153, for the given list of projects; up is whether the
\* store answers.  status is the value returned, the exit status.
cmd_search(dbs, projects, query, limit, up) ==
    IF projects = <<>> THEN Outcome(<<>>, 0, FALSE, "No projects indexed.", 1)
    ELSE IF ~up THEN Outcome(<<>>, 0, FALSE, "Error: Could not connect", 1)
    ELSE LET all_results == collect(dbs, projects, query, limit)
             sorted == sort_by_score(all_results.results,
                           [i \in 1..Len(all_results.results) |->
                               all_results.results[i].r.score])
             top == Take(sorted, limit)
         IN  IF top = <<>>
             THEN Outcome(top, all_results.embedded, FALSE, "No results found.", 0)
             ELSE Outcome(top, all_results.embedded, FALSE, "Found", 0)

\* The search tool of server.py, lines 70-99; an exception of the store is not
\* caught and leaves the tool.  The tool keeps the results without their
\* project; the project stays with each result here as history.
server_search(dbs, projects, query, limit, up) ==
    IF projects # <<>> /\ ~up THEN Outcome(<<>>, 0, TRUE, "", 1)
    ELSE LET all_results == collect(dbs, projects, query, limit)
             sorted == sort_by_score(all_results.results,
                           [i \in 1..Len(all_results.results) |->
                               all_results.results[i].r.score])
             top == Take(sorted, limit)
         IN  IF top = <<>>
             THEN Outcome(top, all_results.embedded, FALSE,
                          "No matching conversations found.", 0)
             ELSE Outcome(top, all_results.embedded, FALSE, "Found", 0)

\* ------------------------------------------------------------------ state
VARIABLES
    scanFile,      \* scanner specification: the log file's bytes
    scanPc,        \* "new", "scanned"; "fresh", "first", "resumed"
    scanStart,     \* start_offset of the last iter_new_messages call
    scanOut,       \* its result [items, raised]
    firstOut,      \* result of the first run (offset 0)
    firstEnd,      \* get_final_offset after the first run
    appended,      \* number of records appended since the first run
    logs,          \* the project's log files: filename -> bytes
    stateFile,     \* the project's state.json
    clock,         \* datetime.now(UTC), a logical clock
    db,            \* the project's vectors.db
    pc,            \* position of the ingestion run: "idle", "offset", "scan", ...
    path,          \* "cmd_index", "cmd_search" or "reindex" ("none" when idle)
    full,          \* args.full / full
    queue,         \* jsonl_files still to do; its head is jsonl_file
    start_offset,
    messages,
    count,
    final_offset,
    scanEnd,       \* history: the file's size when it was scanned
    indexed,       \* history: index_messages returned for the current file
    failed,        \* history: files of this run whose scan or index raised
    processed,     \* history: files of this run whose loop iteration completed
    outcome,       \* history: how the last exception of a run ended
    hist,          \* tracker specification: per file, the calls made so far
    got,           \* tracker specification: the last get_file_offset result
    procs,         \* two-process specification: each process's call and position
    saves,         \* history: the processes in the order of their saves
    before,        \* history: state.json before the two calls
    content,       \* extractor specification: the message content passed in
    extracted,     \* extractor specification: the result [done, raised, text]
    runs,          \* whole-run specification: the last operation, and history
                   \* of the runs: [op, settled, repeated, forced]
    dirs,          \* state-directory specification: [state, calls], the
                   \* state.json of each directory under base_dir, and
                   \* (history) the update_file_state calls made per project
    stores,        \* store specification: project -> vectors.db
    call,          \* store specification: the last call and what it returned
    dropped,       \* history: projects whose table was dropped; a later
                   \* index_messages or ensure_collection call takes one out
    tally,         \* history: project -> [succeeded, partial, failed], the messages of
                   \* the index_messages calls that returned and the rows
                   \* inserted by those that raised, since the table was
                   \* last created
    embedder,      \* the process's EmbeddingManager: [instance, constructed]
    threads,       \* embedding specification: each thread's call and position
    used           \* history: the model objects that calls have embedded with

scanVars == <<scanFile, scanPc, scanStart, scanOut, firstOut, firstEnd, appended>>
runVars == <<pc, path, full, queue, start_offset, messages, count, final_offset>>
histVars == <<scanEnd, indexed, failed, processed, outcome>>
sysVars == <<logs, stateFile, clock, db, runVars, histVars>>
raceVars == <<procs, saves, before>>
trackVars == <<hist, got, raceVars>>
extVars == <<content, extracted, runs, dirs>>
embVars == <<embedder, threads, used>>
queryVars == <<stores, call, dropped, tally, embVars>>
vars == <<scanVars, sysVars, trackVars, extVars, queryVars>>

NoStats == [project |-> <<>>, collection_name |-> <<>>, files_tracked |-> 0,
            total_indexed |-> 0]
NoGot == [op |-> "none", filename |-> "", offset |-> 0, at |-> 0, stats |-> NoStats]
NoOut == [items |-> <<>>, raised |-> FALSE]
NoExtract == [done |-> FALSE, raised |-> FALSE, text |-> <<>>]
NoCall ==
    [op |-> "none", projects |-> <<>>, query |-> <<>>, limit |-> 0,
     score_threshold |-> 0, up |-> TRUE, batch |-> <<>>, wasDropped |-> FALSE,
     results |-> <<>>, embedded |-> 0, raised |-> FALSE, message |-> "",
     status |-> 0, count |-> 0, stats |-> [points_count |-> 0, status |-> ""],
     texts |-> <<>>, embeddings |-> <<>>, model_calls |-> 0]

\* The processes of the two-process specification, not in use.
RaceIdle == procs = <<>> /\ saves = <<>> /\ before = NoStateFile

\* The extractor and the stores of the other specifications, not in use.
\* settled: an incremental run has ended, not on a store failure, and no byte
\* was appended since it began; repeated: the last run began in a settled
\* state; forced: some run so far was a full one.
NoRuns == [op |-> "none", settled |-> FALSE, repeated |-> FALSE, forced |-> FALSE]

NoDirs == [state |-> <<>>, calls |-> <<>>]

ExtIdle ==
    content = NoContent /\ extracted = NoExtract /\ runs = NoRuns /\ dirs = NoDirs
EmbIdle == embedder = NoModel /\ threads = <<>> /\ used = {}
QueryIdle ==
    stores = <<>> /\ call = NoCall /\ dropped = {} /\ tally = <<>> /\ EmbIdle

\* The ingestion system at rest, before any file exists.
SysIdle ==
    /\ logs = <<>>
    /\ stateFile = NoStateFile
    /\ clock = 1
    /\ db = NoTable
    /\ pc = "idle" /\ path = "none" /\ full = FALSE /\ queue = <<>>
    /\ start_offset = 0 /\ messages = <<>> /\ count = 0 /\ final_offset = 0
    /\ scanEnd = 0 /\ indexed = FALSE /\ failed = {} /\ processed = {}
    /\ outcome = "none"
    /\ hist = <<>> /\ got = NoGot /\ RaceIdle

\* The scanner of the scanner specifications, not in use.
ScanIdle ==
    /\ scanFile = <<>> /\ scanPc = "off" /\ scanStart = 0 /\ scanOut = NoOut
    /\ firstOut = NoOut /\ firstEnd = 0 /\ appended = 0

\* ------------------------------------------------- scanner specification
ScanPath == "session.jsonl"

\* The texts a line can hold; object bodies carry the uuid id.
LineTexts(id) ==
    {<<>>, <<Space>>, <<Open>>, <<Digit>>}
        \cup {<<Open, Byte(k, id)>> : k \in BodyKinds}

\* Files of exactly n newline-terminated lines; line i carries uuid i.
RECURSIVE TerminatedFiles(_)
TerminatedFiles(n) ==
    IF n = 0 THEN {<<>>}
    ELSE {f \o t \o <<NL>> : f \in TerminatedFiles(n - 1), t \in LineTexts(n)}

\* Files of at most max lines, the last one terminated or not.
FilesUpTo(max) ==
    UNION {TerminatedFiles(n) \cup
           {f \o t : f \in TerminatedFiles(n - 1), t \in LineTexts(n) \ {<<>>}}
           : n \in 1..max} \cup {<<>>}

ScanInit ==
    /\ scanFile \in FilesUpTo(MaxLines)
    /\ scanPc = "new"
    /\ scanStart = 0
    /\ scanOut = NoOut
    /\ firstOut = NoOut
    /\ firstEnd = 0
    /\ appended = 0
    /\ SysIdle
    /\ ExtIdle /\ QueryIdle

\* iter_new_messages(file, start_offset) for any start_offset, also past the end.
Scan(offset) ==
    /\ scanPc = "new"
    /\ scanStart' = offset
    /\ scanOut' = iter_new_messages(ScanPath, scanFile, offset)
    /\ scanPc' = "scanned"
    /\ UNCHANGED <<scanFile, firstOut, firstEnd, appended, sysVars, trackVars, extVars, queryVars>>

\* First run: scan from 0, then take the end-of-file offset.
FirstRun ==
    /\ scanPc = "fresh"
    /\ firstOut' = iter_new_messages(ScanPath, scanFile, 0)
    /\ firstEnd' = get_final_offset(scanFile)
    /\ scanPc' = "first"
    /\ UNCHANGED <<scanFile, scanStart, scanOut, appended, sysVars, trackVars, extVars, queryVars>>

EndsOnBoundary(data) == data = <<>> \/ data[Len(data)] = NL

\* The log writer appends one whole record on a line of its own: text then
\* newline after a terminated line, newline then text after an unterminated one
\* (the way tests/test_e2e.py appends).
AppendRecord(text) ==
    /\ scanPc = "first"
    /\ appended < MaxAppend
    /\ scanFile' = IF EndsOnBoundary(scanFile)
                   THEN scanFile \o text \o <<NL>>
                   ELSE scanFile \o <<NL>> \o text
    /\ appended' = appended + 1
    /\ UNCHANGED <<scanPc, scanStart, scanOut, firstOut, firstEnd, sysVars, trackVars, extVars, queryVars>>

\* Second run: resume from the offset recorded by the first.
Resume ==
    /\ scanPc = "first"
    /\ appended > 0
    /\ scanStart' = firstEnd
    /\ scanOut' = iter_new_messages(ScanPath, scanFile, firstEnd)
    /\ scanPc' = "resumed"
    /\ UNCHANGED <<scanFile, firstOut, firstEnd, appended, sysVars, trackVars, extVars, queryVars>>

ScanNext ==
    \E offset \in 0..(Len(scanFile) + 1) : Scan(offset)

SpecScan == ScanInit /\ [][ScanNext]_vars

\* Two runs: from offset 0, then resumed after records were appended.
ResumeInit ==
    /\ scanFile \in FilesUpTo(MaxFirstLines)
    /\ scanPc = "fresh"
    /\ scanStart = 0
    /\ scanOut = NoOut
    /\ firstOut = NoOut
    /\ firstEnd = 0
    /\ appended = 0
    /\ SysIdle
    /\ ExtIdle /\ QueryIdle

\* A record is a whole JSON value: an object of any kind, or a number.
RecordTexts(id) == LineTexts(id) \ {<<>>, <<Space>>, <<Open>>}

ResumeNext ==
    \/ FirstRun
    \/ \E t \in RecordTexts(MaxFirstLines + appended + 1) : AppendRecord(t)
    \/ Resume

SpecResume == ResumeInit /\ [][ResumeNext]_vars

FullScan == iter_new_messages(ScanPath, scanFile, 0)

\* ------------------------------------------------ extractor specification
\* Blocks of a list content.
MaxBlocks == 3

BlockTypes == {"text", "thinking", "tool_use"}
BlockTexts == {<<>>, <<"x">>, <<"y">>}
Blocks == {Block(type, text) : type \in BlockTypes, text \in BlockTexts}

RECURSIVE BlockLists(_)
BlockLists(n) ==
    IF n = 0 THEN {<<>>}
    ELSE {Append(l, b) : l \in BlockLists(n - 1), b \in Blocks}

Strings == {<<>>, <<" ">>, <<"x">>, <<"x", "\n", "y">>}

\* A message content: a string (user) or a list of blocks (assistant).
Contents ==
    {StrContent(s) : s \in Strings}
        \cup {ListContent(l) : l \in UNION {BlockLists(n) : n \in 0..MaxBlocks}}

ExtractInit ==
    /\ content \in Contents
    /\ extracted = NoExtract
    /\ runs = NoRuns /\ dirs = NoDirs
    /\ SysIdle /\ ScanIdle /\ QueryIdle

\* extract_text_content(message_content)
Extract ==
    /\ ~extracted.done
    /\ extracted' = [done |-> TRUE,
                     raised |-> extract_text_content(content).raised,
                     text |-> extract_text_content(content).text]
    /\ UNCHANGED <<content, runs, dirs, scanVars, sysVars, trackVars, queryVars>>

ExtractNext == Extract

SpecExtract == ExtractInit /\ [][ExtractNext]_vars

\* ---------------------------------------------- the ingestion coordinators
\* Bytes of the log file of the one-file specification.
MaxLen == 5
\* A run starts only while the table holds fewer rows than this.
MaxRows == 4

FileOrder == <<"a.jsonl", "b.jsonl">>
Paths == {"cmd_index", "cmd_search", "reindex"}

InFiles(f) == f \in DOMAIN logs

\* sorted(project_dir.glob("*.jsonl"))
discover_jsonl_files == SelectSeq(FileOrder, InFiles)

jsonl_file == Head(queue)

RunReset ==
    /\ pc' = "idle" /\ path' = "none" /\ full' = FALSE /\ queue' = <<>>
    /\ start_offset' = 0 /\ messages' = <<>> /\ count' = 0 /\ final_offset' = 0
    /\ scanEnd' = 0 /\ indexed' = FALSE

\* The loop goes on to the next file, or the run returns.
NextFile ==
    /\ processed' = processed \cup {jsonl_file}
    /\ start_offset' = 0 /\ messages' = <<>> /\ count' = 0 /\ final_offset' = 0
    /\ scanEnd' = 0 /\ indexed' = FALSE
    /\ IF Tail(queue) = <<>>
       THEN pc' = "idle" /\ path' = "none" /\ full' = FALSE /\ queue' = <<>>
       ELSE pc' = "offset" /\ queue' = Tail(queue) /\ UNCHANGED <<path, full>>

\* cmd_index, the auto-index step of cmd_search (never full), or reindex begins.
StartRun(p, fl) ==
    /\ pc = "idle"
    /\ Len(db.rows) < MaxRows
    /\ p = "cmd_search" => ~fl
    /\ discover_jsonl_files # <<>>
    /\ pc' = "offset" /\ path' = p /\ full' = fl
    /\ queue' = discover_jsonl_files
    /\ failed' = {} /\ processed' = {} /\ outcome' = "none"
    /\ UNCHANGED <<logs, stateFile, clock, db, start_offset, messages, count,
                   final_offset, scanEnd, indexed, scanVars, trackVars, extVars, queryVars>>

\* start_offset = 0 if full else state_mgr.get_file_offset(project, filename)
GetOffset ==
    /\ pc = "offset"
    /\ start_offset' = IF full THEN 0
                       ELSE get_file_offset(stateFile, Project, jsonl_file)
    /\ pc' = "scan"
    /\ UNCHANGED <<logs, stateFile, clock, db, path, full, queue, messages, count,
                   final_offset, histVars, scanVars, trackVars, extVars, queryVars>>

Scanned == iter_new_messages(jsonl_file, logs[jsonl_file], start_offset)

\* messages = list(iter_new_messages(...)) yields something.
ScanSome ==
    /\ pc = "scan"
    /\ ~Scanned.raised /\ Scanned.items # <<>>
    /\ messages' = Scanned.items
    /\ scanEnd' = Len(logs[jsonl_file])
    /\ pc' = "index"
    /\ UNCHANGED <<logs, stateFile, clock, db, path, full, queue, start_offset, count,
                   final_offset, indexed, failed, processed, outcome, scanVars, trackVars, extVars, queryVars>>

\* The loop that records progress for a file whose scan yielded nothing.
ScanEmpty_RecordsProgress ==
    /\ pc = "scan"
    /\ ~Scanned.raised /\ Scanned.items = <<>>
    /\ stateFile' = update_file_state(stateFile, Project, jsonl_file,
                                      get_final_offset(logs[jsonl_file]), 0, clock)
    /\ clock' = clock + 1
    /\ NextFile
    /\ UNCHANGED <<logs, db, failed, outcome, scanVars, trackVars, extVars, queryVars>>

\* if messages: is false, the file is skipped.
ScanEmpty ==
    /\ pc = "scan"
    /\ ~Scanned.raised /\ Scanned.items = <<>>
    /\ NextFile
    /\ UNCHANGED <<logs, stateFile, clock, db, failed, outcome, scanVars, trackVars, extVars, queryVars>>

\* The scan raises; no coordinator catches it inside the loop, the run ends.
\* cmd_search catches it around the loop (except Exception) and prints a
\* warning; cmd_index and reindex have no handler and the exception leaves them.
ScanRaise ==
    /\ pc = "scan"
    /\ Scanned.raised
    /\ failed' = failed \cup {jsonl_file}
    /\ outcome' = IF path = "cmd_search" THEN "scan_warning" ELSE "scan_uncaught"
    /\ RunReset
    /\ UNCHANGED <<logs, stateFile, clock, db, processed, scanVars, trackVars, extVars, queryVars>>

\* index_messages returns; cmd_search counts len(messages), the others the
\* returned count.
IndexOk ==
    /\ pc = "index"
    /\ db' = index_messages(db, messages).db
    /\ count' = IF path = "cmd_search" THEN Len(messages)
                ELSE index_messages(db, messages).count
    /\ indexed' = TRUE
    /\ pc' = "stat"
    /\ UNCHANGED <<logs, stateFile, clock, path, full, queue, start_offset, messages,
                   final_offset, scanEnd, failed, processed, outcome, scanVars, trackVars, extVars, queryVars>>

\* index_messages raises and the exception is swallowed: the loop goes on to
\* record progress.
IndexFail_Swallowed ==
    /\ pc = "index"
    /\ count' = Len(messages)
    /\ pc' = "stat"
    /\ UNCHANGED <<logs, stateFile, clock, db, path, full, queue, start_offset, messages,
                   final_offset, histVars, scanVars, trackVars, extVars, queryVars>>

\* index_messages raises (the store cannot be reached, or the embedding
\* provider or the database fails); the exception leaves the loop and the run
\* ends: with a warning in cmd_search, uncaught in cmd_index and reindex.
IndexFail ==
    /\ pc = "index"
    /\ failed' = failed \cup {jsonl_file}
    /\ outcome' = IF path = "cmd_search" THEN "store_warning" ELSE "store_uncaught"
    /\ RunReset
    /\ UNCHANGED <<logs, stateFile, clock, db, processed, scanVars, trackVars, extVars, queryVars>>

\* final_offset = get_final_offset(jsonl_file)
Stat ==
    /\ pc = "stat"
    /\ final_offset' = get_final_offset(logs[jsonl_file])
    /\ pc' = "update"
    /\ UNCHANGED <<logs, stateFile, clock, db, path, full, queue, start_offset,
                   messages, count, histVars, scanVars, trackVars, extVars, queryVars>>

\* update_file_state called with final_offset and count in each other's place.
Update_SwappedArgs ==
    /\ pc = "update"
    /\ stateFile' = update_file_state(stateFile, Project, jsonl_file,
                                      count, final_offset, clock)
    /\ clock' = clock + 1
    /\ NextFile
    /\ UNCHANGED <<logs, db, failed, outcome, scanVars, trackVars, extVars, queryVars>>

\* state_mgr.update_file_state(project, filename, final_offset, count)
Update ==
    /\ pc = "update"
    /\ stateFile' = update_file_state(stateFile, Project, jsonl_file,
                                      final_offset, count, clock)
    /\ clock' = clock + 1
    /\ NextFile
    /\ UNCHANGED <<logs, db, failed, outcome, scanVars, trackVars, extVars, queryVars>>

\* The process stops at any point of a run.
Crash ==
    /\ pc # "idle"
    /\ RunReset
    /\ UNCHANGED <<logs, stateFile, clock, db, failed, processed, outcome, scanVars, trackVars, extVars, queryVars>>

\* The log writer appends one byte; a body byte carries a uuid unique in its file.
AppendByte(f, k) ==
    /\ Len(logs[f]) < MaxLen
    /\ logs' = [logs EXCEPT ![f] = Append(@, Byte(k, IF k = "u" THEN Len(@) + 1 ELSE 0))]
    /\ UNCHANGED <<stateFile, clock, db, runVars, histVars, scanVars, trackVars, extVars, queryVars>>

Ingest ==
    \/ \E p \in Paths, fl \in BOOLEAN : StartRun(p, fl)
    \/ GetOffset
    \/ ScanSome
    \/ ScanEmpty
    \/ ScanRaise
    \/ IndexOk
    \/ IndexFail
    \/ Stat
    \/ Update
    \/ Crash

Init ==
    /\ logs = [f \in {"a.jsonl"} |-> <<>>]
    /\ stateFile = NoStateFile
    /\ clock = 1
    /\ db = NoTable
    /\ pc = "idle" /\ path = "none" /\ full = FALSE /\ queue = <<>>
    /\ start_offset = 0 /\ messages = <<>> /\ count = 0 /\ final_offset = 0
    /\ scanEnd = 0 /\ indexed = FALSE /\ failed = {} /\ processed = {}
    /\ outcome = "none"
    /\ scanFile = <<>> /\ scanPc = "off" /\ scanStart = 0 /\ scanOut = NoOut
    /\ firstOut = NoOut /\ firstEnd = 0 /\ appended = 0
    /\ hist = <<>> /\ got = NoGot /\ RaceIdle
    /\ ExtIdle /\ QueryIdle

Next ==
    \/ Ingest
    \/ \E f \in DOMAIN logs, k \in {"\n", "{", "u", "7"} : AppendByte(f, k)

Spec == Init /\ [][Next]_vars

\* ------------------------------------ incremental runs repeated for ever
\* The runs are incremental, none is interrupted and the store does not fail.
LiveIngest ==
    \/ \E p \in Paths : StartRun(p, FALSE)
    \/ GetOffset
    \/ ScanSome
    \/ ScanEmpty
    \/ IndexOk
    \/ Stat
    \/ Update

\* The log writer appends records, each on a line of its own, in one write or
\* byte by byte: an opening brace at the start of a line, then the body, then
\* the newline.
LastByte(data) == IF data = <<>> THEN NL ELSE data[Len(data)]

WriteRecordByte(f, k) ==
    /\ LastByte(logs[f]).k = (CASE k = "{" -> "\n" [] k = "u" -> "{" [] OTHER -> "u")
    /\ AppendByte(f, k)

LiveNext ==
    \/ LiveIngest
    \/ \E f \in DOMAIN logs, k \in {"\n", "{", "u"} : WriteRecordByte(f, k)

\* A run that has begun goes on to its end, and a new run begins again and
\* again: the steps of ingestion are taken whenever they stay possible.
SpecLive == Init /\ [][LiveNext]_vars /\ WF_vars(LiveIngest)

\* ------------------------------------------ several files in one project
\* Lines of each log file of the several-files specification.
MaxRecords == 2

Lines(data) == Cardinality({i \in 1..Len(data) : data[i] = NL})

\* The log writer appends one whole line: a user record, or a JSON number.
AppendLine(f, k) ==
    /\ Lines(logs[f]) < MaxRecords
    /\ logs' = [logs EXCEPT ![f] =
                   @ \o (IF k = "u" THEN <<Open, Byte("u", Len(@) + 2)>> ELSE <<Digit>>)
                     \o <<NL>>]
    /\ UNCHANGED <<stateFile, clock, db, runVars, histVars, scanVars, trackVars, extVars, queryVars>>

FilesInit ==
    /\ logs = [f \in {"a.jsonl", "b.jsonl"} |-> <<>>]
    /\ stateFile = NoStateFile
    /\ clock = 1
    /\ db = NoTable
    /\ pc = "idle" /\ path = "none" /\ full = FALSE /\ queue = <<>>
    /\ start_offset = 0 /\ messages = <<>> /\ count = 0 /\ final_offset = 0
    /\ scanEnd = 0 /\ indexed = FALSE /\ failed = {} /\ processed = {}
    /\ outcome = "none"
    /\ scanFile = <<>> /\ scanPc = "off" /\ scanStart = 0 /\ scanOut = NoOut
    /\ firstOut = NoOut /\ firstEnd = 0 /\ appended = 0
    /\ hist = <<>> /\ got = NoGot /\ RaceIdle
    /\ ExtIdle /\ QueryIdle

FilesNext ==
    \/ Ingest
    \/ \E f \in DOMAIN logs, k \in {"u", "7"} : AppendLine(f, k)

SpecFiles == FilesInit /\ [][FilesNext]_vars

\* ------------------------------------------------------------ whole runs
\* The loop over jsonl_files of cmd_index, of the auto-index step of cmd_search
\* and of reindex, from the first file to the return or to the exception that
\* ends it; up says whether index_messages can reach the store.
\* [stateFile, db, clock, count, outcome, processed, failed], count being the
\* total the run reports.
RECURSIVE run_loop(_, _, _, _, _, _, _, _)
run_loop(p, fl, files, lgs, state_file, d, now, up) ==
    IF files = <<>>
    THEN [stateFile |-> state_file, db |-> d, clock |-> now, count |-> 0,
          outcome |-> "none", processed |-> {}, failed |-> {}]
    ELSE LET filename == Head(files)
             offset == IF fl THEN 0
                       ELSE get_file_offset(state_file, Project, filename)
             scanned == iter_new_messages(filename, lgs[filename], offset)
             result == index_messages(d, scanned.items)
             counted == IF p = "cmd_search" THEN Len(scanned.items) ELSE result.count
             updated == update_file_state(state_file, Project, filename,
                                          get_final_offset(lgs[filename]),
                                          counted, now)
             ended(how) ==
                 [stateFile |-> state_file, db |-> d, clock |-> now, count |-> 0,
                  outcome |-> how, processed |-> {}, failed |-> {filename}]
             rest == IF scanned.items = <<>>
                     THEN run_loop(p, fl, Tail(files), lgs, state_file, d, now, up)
                     ELSE run_loop(p, fl, Tail(files), lgs, updated, result.db,
                                   now + 1, up)
         IN  IF scanned.raised
             THEN ended(IF p = "cmd_search" THEN "scan_warning" ELSE "scan_uncaught")
             ELSE IF scanned.items # <<>> /\ ~up
             THEN ended(IF p = "cmd_search" THEN "store_warning" ELSE "store_uncaught")
             ELSE [rest EXCEPT
                      !.count = @ + (IF scanned.items = <<>> THEN 0 ELSE counted),
                      !.processed = @ \cup {filename}]

RunsInit ==
    /\ logs = [f \in {"a.jsonl", "b.jsonl"} |-> <<>>]
    /\ stateFile = NoStateFile
    /\ clock = 1
    /\ db = NoTable
    /\ pc = "idle" /\ path = "none" /\ full = FALSE /\ queue = <<>>
    /\ start_offset = 0 /\ messages = <<>> /\ count = 0 /\ final_offset = 0
    /\ scanEnd = 0 /\ indexed = FALSE /\ failed = {} /\ processed = {}
    /\ outcome = "none"
    /\ hist = <<>> /\ got = NoGot /\ RaceIdle
    /\ ScanIdle /\ ExtIdle /\ QueryIdle

\* One run of a coordinator from its start to its end, with nothing else
\* acting meanwhile: incremental or full, the store reachable or not.
WholeRun(p, fl, up) ==
    /\ Len(db.rows) < MaxRows
    /\ p = "cmd_search" => ~fl
    /\ discover_jsonl_files # <<>>
    /\ LET run == run_loop(p, fl, discover_jsonl_files, logs, stateFile, db, clock, up)
       IN  /\ stateFile' = run.stateFile
           /\ db' = run.db
           /\ clock' = run.clock
           /\ count' = run.count
           /\ outcome' = run.outcome
           /\ processed' = run.processed
           /\ failed' = run.failed
           /\ runs' = [op |-> "run",
                       settled |-> /\ ~fl
                                   /\ run.outcome \notin {"store_warning",
                                                          "store_uncaught"},
                       repeated |-> runs.settled,
                       forced |-> runs.forced \/ fl]
    /\ path' = p /\ full' = fl
    /\ UNCHANGED <<logs, pc, queue, start_offset, messages, final_offset, scanEnd,
                   indexed, content, extracted, dirs, scanVars, trackVars, queryVars>>

\* The log writer appends one whole line, a user record or a JSON number,
\* between two runs.
WriteLine(f, k) ==
    /\ Lines(logs[f]) < MaxRecords
    /\ logs' = [logs EXCEPT ![f] =
                   @ \o (IF k = "u" THEN <<Open, Byte("u", Len(@) + 2)>> ELSE <<Digit>>)
                     \o <<NL>>]
    /\ runs' = [runs EXCEPT !.op = "append", !.settled = FALSE, !.repeated = FALSE]
    /\ UNCHANGED <<stateFile, clock, db, runVars, histVars, content, extracted,
                   dirs, scanVars, trackVars, queryVars>>

RunsNext ==
    \/ \E p \in Paths, fl \in BOOLEAN, up \in BOOLEAN : WholeRun(p, fl, up)
    \/ \E f \in DOMAIN logs, k \in {"u", "7"} : WriteLine(f, k)

SpecRuns == RunsInit /\ [][RunsNext]_vars

\* ------------------------------------------------- the progress tracker
\* Arguments of update_file_state, and the number of calls.
MaxOffset == 2
MaxCount == 1
MaxUpdates == 3

TrackedFiles == {"a.jsonl", "b.jsonl"}
\* at is the clock of the latest call for the file.
NoCalls == [updated |-> FALSE, last |-> 0, sum |-> 0, at |-> 0]

TrackerInit ==
    /\ stateFile = NoStateFile
    /\ clock = 1
    /\ hist = [f \in TrackedFiles |-> NoCalls]
    /\ got = NoGot /\ RaceIdle
    /\ logs = <<>> /\ db = NoTable
    /\ pc = "idle" /\ path = "none" /\ full = FALSE /\ queue = <<>>
    /\ start_offset = 0 /\ messages = <<>> /\ count = 0 /\ final_offset = 0
    /\ scanEnd = 0 /\ indexed = FALSE /\ failed = {} /\ processed = {}
    /\ outcome = "none"
    /\ scanFile = <<>> /\ scanPc = "off" /\ scanStart = 0 /\ scanOut = NoOut
    /\ firstOut = NoOut /\ firstEnd = 0 /\ appended = 0
    /\ ExtIdle /\ QueryIdle

\* update_file_state(project, filename, byte_offset, new_count) with any arguments.
UpdateFileState(filename, byte_offset, new_count) ==
    /\ clock <= MaxUpdates
    /\ stateFile' = update_file_state(stateFile, Project, filename,
                                      byte_offset, new_count, clock)
    /\ clock' = clock + 1
    /\ hist' = [hist EXCEPT ![filename] =
                   [updated |-> TRUE, last |-> byte_offset, sum |-> @.sum + new_count,
                    at |-> clock]]
    /\ UNCHANGED <<got, raceVars, logs, db, runVars, histVars, scanVars, extVars, queryVars>>

\* get_file_offset(project, filename)
GetFileOffset(filename) ==
    /\ got' = [op |-> "get_file_offset", filename |-> filename,
               offset |-> get_file_offset(stateFile, Project, filename),
               at |-> clock, stats |-> NoStats]
    /\ UNCHANGED <<stateFile, clock, hist, raceVars, logs, db, runVars, histVars, scanVars,
                   extVars, queryVars>>

\* get_stats(project)
GetStats ==
    /\ got' = [NoGot EXCEPT !.op = "get_stats", !.at = clock,
                            !.stats = get_stats(stateFile, Project)]
    /\ UNCHANGED <<stateFile, clock, hist, raceVars, logs, db, runVars, histVars, scanVars,
                   extVars, queryVars>>

TrackerNext ==
    \/ \E f \in TrackedFiles, o \in 0..MaxOffset, c \in 0..MaxCount :
          UpdateFileState(f, o, c)
    \/ \E f \in TrackedFiles : GetFileOffset(f)
    \/ GetStats

SpecTracker == TrackerInit /\ [][TrackerNext]_vars

\* ------------------------------------------- the state directories
\* Project names: directory names under ~/.claude/projects, and a path.
NamedProjects ==
    {Project, <<"h", "-", "p">>, <<"h", "/", "p">>, <<"h", "_", "p">>, <<"q">>}

\* The state.json that the StateManager reads for a project.
StateFileOf(project) ==
    IF project_dir(project) \in DOMAIN dirs.state
    THEN dirs.state[project_dir(project)]
    ELSE NoStateFile

DirsInit ==
    /\ dirs = [state |-> <<>>, calls |-> [project \in NamedProjects |-> 0]]
    /\ content = NoContent /\ extracted = NoExtract /\ runs = NoRuns
    /\ SysIdle /\ ScanIdle /\ QueryIdle

\* update_file_state(project, "a.jsonl", 1, 1) for one of the projects.
UpdateFor(project) ==
    /\ clock <= MaxUpdates
    /\ dirs' = [state |->
                   [d \in DOMAIN dirs.state \cup {project_dir(project)} |->
                       IF d = project_dir(project)
                       THEN update_file_state(StateFileOf(project), project,
                                              "a.jsonl", 1, 1, clock)
                       ELSE dirs.state[d]],
                calls |-> [dirs.calls EXCEPT ![project] = @ + 1]]
    /\ clock' = clock + 1
    /\ UNCHANGED <<got, hist, raceVars, logs, stateFile, db, runVars, histVars,
                   content, extracted, runs, scanVars, queryVars>>

\* get_stats(project) for one of the projects.
GetStatsFor(project) ==
    /\ got' = [NoGot EXCEPT !.op = "get_stats", !.at = clock,
                            !.stats = get_stats(StateFileOf(project), project)]
    /\ UNCHANGED <<hist, raceVars, logs, stateFile, clock, db, runVars, histVars,
                   extVars, scanVars, queryVars>>

DirsNext ==
    \/ \E project \in NamedProjects : UpdateFor(project)
    \/ \E project \in NamedProjects : GetStatsFor(project)

SpecDirs == DirsInit /\ [][DirsNext]_vars

\* --------------------------------------- two processes on one project
\* Two ingestion processes of one project, each at its update_file_state call.
\* The call is a load (line 116), then the assignments and the save (lines
\* 118-126); nothing locks state.json between the two.
Processes == {1, 2}

NoProc ==
    [pc |-> "idle", filename |-> "", byte_offset |-> 0, new_count |-> 0,
     state |-> [collection_name |-> <<>>, files |-> <<>>], seen |-> 0, at |-> 0]

\* state.json is absent, or holds a.jsonl as one earlier run has left it.
RaceInit ==
    /\ \/ stateFile = NoStateFile /\ clock = 1
       \/ /\ stateFile = update_file_state(NoStateFile, Project, "a.jsonl", 1, 1, 1)
          /\ clock = 2
    /\ procs = [p \in Processes |-> NoProc]
    /\ saves = <<>>
    /\ before = stateFile
    /\ hist = <<>> /\ got = NoGot
    /\ logs = <<>> /\ db = NoTable
    /\ pc = "idle" /\ path = "none" /\ full = FALSE /\ queue = <<>>
    /\ start_offset = 0 /\ messages = <<>> /\ count = 0 /\ final_offset = 0
    /\ scanEnd = 0 /\ indexed = FALSE /\ failed = {} /\ processed = {}
    /\ outcome = "none"
    /\ ScanIdle /\ ExtIdle /\ QueryIdle

\* state = self.load(project); seen is the number of saves made so far.
Load(p, filename, byte_offset, new_count) ==
    /\ procs[p].pc = "idle"
    /\ procs' = [procs EXCEPT ![p] =
                    [pc |-> "loaded", filename |-> filename,
                     byte_offset |-> byte_offset, new_count |-> new_count,
                     state |-> load(stateFile, Project), seen |-> Len(saves),
                     at |-> 0]]
    /\ UNCHANGED <<stateFile, clock, saves, before, hist, got, logs, db, runVars,
                   histVars, scanVars, extVars, queryVars>>

\* The entry is assigned in the loaded state and the state is saved; the call
\* returns.
Save(p) ==
    /\ procs[p].pc = "loaded"
    /\ stateFile' = save(stateFile, Project,
                         with_file_state(procs[p].state, procs[p].filename,
                                         procs[p].byte_offset, procs[p].new_count,
                                         clock))
    /\ clock' = clock + 1
    /\ procs' = [procs EXCEPT ![p].pc = "returned", ![p].at = clock]
    /\ saves' = Append(saves, p)
    /\ UNCHANGED <<before, hist, got, logs, db, runVars, histVars, scanVars,
                   extVars, queryVars>>

RaceNext ==
    \/ \E p \in Processes, f \in TrackedFiles, o \in 0..MaxOffset, c \in 0..MaxCount :
          Load(p, f, o, c)
    \/ \E p \in Processes : Save(p)

SpecRace == RaceInit /\ [][RaceNext]_vars

\* ------------------------------------------------------ the vector stores
\* Rows of a store, messages of a batch, and the limit of a query.
MaxStored == 2
MaxBatch == 2
MaxLimit == 2

\* list_all_projects(), state_mgr.list_projects(): sorted.
AllProjects == <<"p1", "p2">>
ProjectNames == {AllProjects[i] : i \in 1..Len(AllProjects)}

\* Texts of the messages and of the queries; their vectors are 0, 7 and 8.
StoreTexts == {<<"a">>, <<"b", "c">>, <<"c", "c">>}
Thresholds == {DefaultThreshold - 2, DefaultThreshold, One}

\* Batches of len messages for a store of n rows: the uuids go on from n.
RECURSIVE Batches(_, _, _)
Batches(project, n, len) ==
    IF len = 0 THEN {<<>>}
    ELSE {Append(b, IndexableMessage(n + len, "user", text, project, n + len, 0)) :
              b \in Batches(project, n, len - 1), text \in StoreTexts}

\* The batches with the uuid of one message an array or an object.
Spoiled(batches) ==
    UNION {{[b EXCEPT ![i].uuid = Unbindable] : i \in 1..Len(b)} : b \in batches}

\* What embed_batch may hand back for the texts: the repository's provider
\* returns one vector per text; a provider that breaks the contract returns
\* fewer vectors, or one more.
Provided(texts) ==
    IF texts = <<>> THEN {<<>>}
    ELSE {Take(embed_batch(texts), n) : n \in 0..Len(texts)}
             \cup {Append(embed_batch(texts), 0)}

\* failed: the uuids of the rows inserted by the calls that raised.
NoTally == [succeeded |-> 0, partial |-> 0, failed |-> {}]

\* One project's store, through the methods of its manager, in one process.
StoreInit ==
    /\ stores = [project \in {AllProjects[1]} |-> NoTable]
    /\ call = NoCall
    /\ dropped = {}
    /\ tally = [project \in {AllProjects[1]} |-> NoTally]
    /\ EmbIdle
    /\ SysIdle /\ ScanIdle /\ ExtIdle

\* index_messages(batch), with embeddings the list that embed_batch returns.
IndexMessages(project, batch, embeddings) ==
    /\ Len(stores[project].rows) + Len(batch) <= MaxStored
    /\ stores' = [stores EXCEPT ![project] =
                     index_messages_given(@, batch, embeddings).db]
    /\ call' = [NoCall EXCEPT
                   !.op = "index_messages", !.projects = <<project>>,
                   !.batch = batch, !.embeddings = embeddings,
                   !.wasDropped = project \in dropped,
                   !.count = index_messages_given(stores[project], batch,
                                                  embeddings).count,
                   !.raised = index_messages_given(stores[project], batch,
                                                   embeddings).raised,
                   !.embedded = index_messages_given(stores[project], batch,
                                                     embeddings).embedded]
    /\ embedder' = IF index_messages_given(stores[project], batch,
                                           embeddings).embedded = 0
                   THEN embedder
                   ELSE embed_batch_call(embedder, embed_texts(batch)).manager
    /\ tally' = [tally EXCEPT ![project] =
                    LET since == IF stores[project].exists THEN @ ELSE NoTally
                        result == index_messages_given(stores[project], batch, embeddings)
                    IN  IF result.raised
                        THEN [since EXCEPT
                                 !.partial =
                                     @ + Len(result.db.rows) - Len(stores[project].rows),
                                 !.failed =
                                     @ \cup {result.db.rows[k].uuid :
                                                k \in (Len(stores[project].rows) + 1)
                                                          ..Len(result.db.rows)}]
                        ELSE [since EXCEPT !.succeeded = @ + result.count]]
    /\ dropped' = dropped \ {project}
    /\ UNCHANGED <<threads, used, scanVars, sysVars, trackVars, extVars>>

EnsureCollection(project) ==
    /\ stores' = [stores EXCEPT ![project] = ensure_collection(@)]
    /\ call' = [NoCall EXCEPT !.op = "ensure_collection", !.projects = <<project>>,
                              !.wasDropped = project \in dropped]
    /\ tally' = [tally EXCEPT
                    ![project] = IF stores[project].exists THEN @ ELSE NoTally]
    /\ dropped' = dropped \ {project}
    /\ UNCHANGED <<embVars, scanVars, sysVars, trackVars, extVars>>

\* count records the rows the table held.
DropCollection(project) ==
    /\ stores' = [stores EXCEPT ![project] = drop_collection(@)]
    /\ call' = [NoCall EXCEPT !.op = "drop_collection", !.projects = <<project>>,
                              !.count = Len(stores[project].rows)]
    /\ tally' = [tally EXCEPT ![project] = NoTally]
    /\ dropped' = dropped \cup {project}
    /\ UNCHANGED <<embVars, scanVars, sysVars, trackVars, extVars>>

GetCollectionStats(project) ==
    /\ call' = [NoCall EXCEPT !.op = "get_collection_stats", !.projects = <<project>>,
                              !.stats = get_collection_stats(stores[project])]
    /\ UNCHANGED <<stores, dropped, tally, embVars, scanVars, sysVars, trackVars,
                   extVars>>

\* search that creates the table it does not find.
Search_EnsuresCollection(project, query, limit, score_threshold) ==
    /\ call' = [NoCall EXCEPT
                   !.op = "search", !.projects = <<project>>, !.query = query,
                   !.limit = limit, !.score_threshold = score_threshold,
                   !.results = search(stores[project], query, limit,
                                      score_threshold).results,
                   !.embedded = search(stores[project], query, limit,
                                       score_threshold).embedded]
    /\ stores' = [stores EXCEPT ![project] = ensure_collection(@)]
    /\ embedder' = IF search(stores[project], query, limit, score_threshold).embedded = 0
                   THEN embedder ELSE get_model(embedder)
    /\ UNCHANGED <<dropped, tally, threads, used, scanVars, sysVars, trackVars,
                   extVars>>

Search(project, query, limit, score_threshold) ==
    /\ call' = [NoCall EXCEPT
                   !.op = "search", !.projects = <<project>>, !.query = query,
                   !.limit = limit, !.score_threshold = score_threshold,
                   !.results = search(stores[project], query, limit,
                                      score_threshold).results,
                   !.embedded = search(stores[project], query, limit,
                                       score_threshold).embedded]
    /\ embedder' = IF search(stores[project], query, limit, score_threshold).embedded = 0
                   THEN embedder ELSE get_model(embedder)
    /\ UNCHANGED <<stores, dropped, tally, threads, used, scanVars, sysVars,
                   trackVars, extVars>>

\* EmbeddingManager.embed_batch(texts), called directly.
EmbedBatch(texts) ==
    /\ call' = [NoCall EXCEPT
                   !.op = "embed_batch", !.texts = texts,
                   !.embeddings = embed_batch_call(embedder, texts).embeddings,
                   !.model_calls = embed_batch_call(embedder, texts).model_calls]
    /\ embedder' = embed_batch_call(embedder, texts).manager
    /\ UNCHANGED <<stores, dropped, tally, threads, used, scanVars, sysVars,
                   trackVars, extVars>>

\* What a coordinator's query returned.
Answered(op, projects, query, limit, up, answer) ==
    [NoCall EXCEPT !.op = op, !.projects = projects, !.query = query,
                   !.limit = limit, !.score_threshold = DefaultThreshold, !.up = up,
                   !.results = answer.results, !.embedded = answer.embedded,
                   !.raised = answer.raised, !.message = answer.message,
                   !.status = answer.status]

\* claude-reflections search QUERY [-p PROJECT] [-l LIMIT]; with -p, a project
\* whose directory holds no log file, so that the auto-index step does nothing.
\* The command is a process of its own: its EmbeddingManager ends with it.
CmdSearch(projects, query, limit, up) ==
    /\ call' = Answered("cmd_search", projects, query, limit, up,
                        cmd_search(stores, projects, query, limit, up))
    /\ UNCHANGED <<stores, dropped, tally, embVars, scanVars, sysVars, trackVars,
                   extVars>>

\* The search tool of the server, for one project or for all.
ServerSearch(projects, query, limit, up) ==
    /\ call' = Answered("server_search", projects, query, limit, up,
                        server_search(stores, projects, query, limit, up))
    /\ embedder' = IF server_search(stores, projects, query, limit, up).embedded = 0
                   THEN embedder ELSE get_model(embedder)
    /\ UNCHANGED <<stores, dropped, tally, threads, used, scanVars, sysVars,
                   trackVars, extVars>>

StoreNext ==
    \/ \E project \in DOMAIN stores, len \in 0..MaxBatch :
          \E batch \in Batches(project, Len(stores[project].rows), len)
                          \cup Spoiled(Batches(project, Len(stores[project].rows), len)) :
              \E embeddings \in Provided(embed_texts(batch)) :
                  IndexMessages(project, batch, embeddings)
    \/ \E texts \in {<<>>, <<<<"a">>>>, <<<<"b", "c">>, <<"a">>>>} : EmbedBatch(texts)
    \/ \E project \in DOMAIN stores : EnsureCollection(project)
    \/ \E project \in DOMAIN stores : DropCollection(project)
    \/ \E project \in DOMAIN stores : GetCollectionStats(project)
    \/ \E project \in DOMAIN stores, query \in StoreTexts, limit \in 1..MaxLimit,
          score_threshold \in Thresholds :
          Search(project, query, limit, score_threshold)

SpecStore == StoreInit /\ [][StoreNext]_vars

\* ------------------------------------------------- the stored snippets
\* A text of n characters c.
Filled(n, c) == [i \in 1..n |-> c]

\* Message contents around the length at which the snippet is cut.
LongTexts ==
    {<<"a">>} \cup
    {Filled(n, c) : n \in {SnippetLen - 1, SnippetLen, SnippetLen + 1, 2 * SnippetLen},
                    c \in {"a", "b"}}

RECURSIVE LongBatches(_, _, _)
LongBatches(project, n, len) ==
    IF len = 0 THEN {<<>>}
    ELSE {Append(b, IndexableMessage(n + len, "user", text, project, n + len, 0)) :
              b \in LongBatches(project, n, len - 1), text \in LongTexts}

SnippetNext ==
    \E project \in DOMAIN stores, len \in 1..MaxBatch :
        \E batch \in LongBatches(project, Len(stores[project].rows), len) :
            IndexMessages(project, batch, embed_batch(embed_texts(batch)))

SpecSnippet == StoreInit /\ [][SnippetNext]_vars

\* --------------------------------------- the embedding model in threads
\* Calls of embed and embed_batch that each thread makes.
MaxCalls == 2

Threads == {1, 2}

NoThread == [pc |-> "idle", op |-> "", texts |-> <<>>, model |-> 0, calls |-> 0]

EmbedInit ==
    /\ embedder = NoModel
    /\ threads = [t \in Threads |-> NoThread]
    /\ used = {}
    /\ stores = <<>> /\ call = NoCall /\ dropped = {} /\ tally = <<>>
    /\ SysIdle /\ ScanIdle /\ ExtIdle

\* A thread calls embed(text), or embed_batch(texts) with texts not empty.
CallEmbed(t, op, texts) ==
    /\ threads[t].pc = "idle"
    /\ threads[t].calls < MaxCalls
    /\ texts # <<>>
    /\ threads' = [threads EXCEPT ![t] =
                      [pc |-> "check", op |-> op, texts |-> texts, model |-> 0,
                       calls |-> @.calls + 1]]
    /\ UNCHANGED <<embedder, used, stores, call, dropped, tally, scanVars, sysVars,
                   trackVars, extVars>>

\* embed_batch([]) returns at once.
CallEmbedBatchEmpty(t) ==
    /\ threads[t].pc = "idle"
    /\ threads[t].calls < MaxCalls
    /\ threads' = [threads EXCEPT ![t] =
                      [pc |-> "idle", op |-> "embed_batch", texts |-> <<>>,
                       model |-> 0, calls |-> @.calls + 1]]
    /\ UNCHANGED <<embedder, used, stores, call, dropped, tally, scanVars, sysVars,
                   trackVars, extVars>>

\* if cls._instance is None:
CheckInstance(t) ==
    /\ threads[t].pc = "check"
    /\ threads' = [threads EXCEPT ![t].pc =
                      IF embedder.instance = 0 THEN "construct" ELSE "return"]
    /\ UNCHANGED <<embedder, used, stores, call, dropped, tally, scanVars, sysVars,
                   trackVars, extVars>>

\* cls._instance = TextEmbedding(model_name=EMBEDDING_MODEL)
Construct(t) ==
    /\ threads[t].pc = "construct"
    /\ embedder' = [instance |-> embedder.constructed + 1,
                    constructed |-> embedder.constructed + 1]
    /\ threads' = [threads EXCEPT ![t].pc = "return"]
    /\ UNCHANGED <<used, stores, call, dropped, tally, scanVars, sysVars, trackVars,
                   extVars>>

\* return cls._instance
ReturnInstance(t) ==
    /\ threads[t].pc = "return"
    /\ threads' = [threads EXCEPT ![t].pc = "embed", ![t].model = embedder.instance]
    /\ UNCHANGED <<embedder, used, stores, call, dropped, tally, scanVars, sysVars,
                   trackVars, extVars>>

\* model.embed(texts): the call embeds with the model it was given and returns.
ModelEmbed(t) ==
    /\ threads[t].pc = "embed"
    /\ used' = used \cup {threads[t].model}
    /\ threads' = [threads EXCEPT ![t].pc = "idle"]
    /\ UNCHANGED <<embedder, stores, call, dropped, tally, scanVars, sysVars, trackVars,
                   extVars>>

EmbedNext ==
    \/ \E t \in Threads : CallEmbed(t, "embed", <<<<"a">>>>)
    \/ \E t \in Threads : CallEmbed(t, "embed_batch", <<<<"b", "c">>, <<"a">>>>)
    \/ \E t \in Threads : CallEmbedBatchEmpty(t)
    \/ \E t \in Threads : CheckInstance(t)
    \/ \E t \in Threads : Construct(t)
    \/ \E t \in Threads : ReturnInstance(t)
    \/ \E t \in Threads : ModelEmbed(t)

SpecEmbed == EmbedInit /\ [][EmbedNext]_vars

\* ------------------------------------------- the queries over the projects
\* The stores of all the projects, filled one message at a time, and the
\* queries of the two coordinators.
QueryInit ==
    /\ stores = [project \in ProjectNames |-> NoTable]
    /\ call = NoCall
    /\ dropped = {}
    /\ tally = [project \in ProjectNames |-> NoTally]
    /\ EmbIdle
    /\ SysIdle /\ ScanIdle /\ ExtIdle

\* [args.project] if args.project else state_mgr.list_projects()
ProjectLists == {<<>>, AllProjects} \cup {<<project>> : project \in ProjectNames}

QueryTexts == {<<"a">>, <<"b", "c">>}

QueryNext ==
    \/ \E project \in DOMAIN stores :
          \E batch \in Batches(project, Len(stores[project].rows), 1) :
              IndexMessages(project, batch, embed_batch(embed_texts(batch)))
    \/ \E projects \in ProjectLists, query \in QueryTexts, limit \in 1..MaxLimit :
          CmdSearch(projects, query, limit, TRUE)
    \/ \E projects \in ProjectLists : CmdSearch(projects, <<"a">>, 1, FALSE)
    \/ \E projects \in ProjectLists \ {<<>>}, query \in QueryTexts,
          limit \in 1..MaxLimit :
          ServerSearch(projects, query, limit, TRUE)
    \/ \E projects \in ProjectLists \ {<<>>} : ServerSearch(projects, <<"a">>, 1, FALSE)

SpecQuery == QueryInit /\ [][QueryNext]_vars

\* ------------------------------------------------ claims on the scanner
\* Start positions of the lines of a file.
LineStarts(data) ==
    IF data = <<>> THEN {}
    ELSE {0} \cup {i \in 1..(Len(data) - 1) : data[i] = NL}

LineAt(data, pos) == SubSeq(data, pos + 1, readline(data, pos))

\* The line is a JSON object of type user or assistant with non-blank text.
Ingestible(line) ==
    LET d == json_loads(strip(line))
    IN  /\ d.ok
        /\ d.val.isObject
        /\ d.val.type \in {"user", "assistant"}
        /\ d.val.message.t = "obj"
        /\ d.val.message.content.t \in {"str", "list"}
        /\ ~IsBlank(extract_text_content(d.val.message.content).text)

Offsets(items) == [i \in 1..Len(items) |-> items[i].byte_offset]

\* C1: the first run (offset 0, up to the end of file X) and the second run
\* (resumed from X after records were appended) together yield exactly the
\* items of one scan of the final file from offset 0; one ingestible record
\* appended gives exactly one new item.
C1_TwoRunsEqualFullScan ==
    (scanPc = "resumed" /\ ~FullScan.raised) =>
        /\ Offsets(firstOut.items) \o Offsets(scanOut.items) = Offsets(FullScan.items)
        /\ (appended = 1 /\ Len(FullScan.items) = Len(firstOut.items) + 1)
              => Len(scanOut.items) = 1

\* C8: every record emitted from any start_offset carries the line number that
\* the scan from offset 0 gives the record at the same byte offset.
C8_LineNumbersStable ==
    scanPc = "scanned" =>
        \A i \in 1..Len(scanOut.items) : \A j \in 1..Len(FullScan.items) :
            scanOut.items[i].byte_offset = FullScan.items[j].byte_offset
                => scanOut.items[i].line_number = FullScan.items[j].line_number

\* C9: a line that is not ingestible is skipped silently: the scan does not
\* raise, and a scan from offset 0 still yields every ingestible line.
C9_NonIngestibleSkippedSilently ==
    scanPc = "scanned" =>
        /\ ~scanOut.raised
        /\ scanStart = 0 =>
              \A p \in LineStarts(scanFile) :
                  Ingestible(LineAt(scanFile, p))
                      => \E i \in 1..Len(scanOut.items) : scanOut.items[i].byte_offset = p

\* C10: every item yielded has role user or assistant, the type of its record,
\* and content that is not blank; a record of another type is never yielded.
C10_YieldedRoleAndContent ==
    scanPc = "scanned" =>
        \A i \in 1..Len(scanOut.items) :
            LET item == scanOut.items[i]
                d == json_loads(strip(LineAt(scanFile, item.byte_offset)))
            IN  /\ item.role \in {"user", "assistant"}
                /\ ~IsBlank(item.content)
                /\ d.ok /\ d.val.isObject /\ d.val.type = item.role

\* A scan that passed a file-history-snapshot record and yielded a later record.
C10_Witness ==
    /\ scanPc = "scanned"
    /\ ~scanOut.raised
    /\ \E p \in LineStarts(scanFile) :
          /\ p > scanStart
          /\ json_loads(strip(LineAt(scanFile, p))).ok
          /\ json_loads(strip(LineAt(scanFile, p))).val.type = "file-history-snapshot"
          /\ \E i \in 1..Len(scanOut.items) : scanOut.items[i].byte_offset > p

Uuid(line) == json_loads(strip(line)).val.uuid

\* 1-based number of the line that starts at pos.
LineNumber(data, pos) == Cardinality({q \in LineStarts(data) : q <= pos})

IngestibleStarts(data) == {p \in LineStarts(data) : Ingestible(LineAt(data, p))}

\* C11: a scan from offset 0 yields exactly one item per ingestible line, in
\* file order, each with the uuid, the byte offset and the 1-based line number
\* of its line, and yields nothing else.
C11_FullScanExact ==
    (scanPc = "scanned" /\ scanStart = 0) =>
        /\ Len(scanOut.items) = Cardinality(IngestibleStarts(scanFile))
        /\ \A i \in 1..Len(scanOut.items) :
              LET item == scanOut.items[i]
              IN  /\ item.byte_offset \in IngestibleStarts(scanFile)
                  /\ item.uuid = Uuid(LineAt(scanFile, item.byte_offset))
                  /\ item.line_number = LineNumber(scanFile, item.byte_offset)
                  /\ \A j \in 1..(i - 1) :
                        scanOut.items[j].byte_offset < item.byte_offset

\* The same, for the scans that do not raise.
FullScanExactUnlessRaised ==
    (scanPc = "scanned" /\ scanStart = 0 /\ ~scanOut.raised) =>
        /\ Len(scanOut.items) = Cardinality(IngestibleStarts(scanFile))
        /\ \A i \in 1..Len(scanOut.items) :
              LET item == scanOut.items[i]
              IN  /\ item.byte_offset \in IngestibleStarts(scanFile)
                  /\ item.uuid = Uuid(LineAt(scanFile, item.byte_offset))
                  /\ item.line_number = LineNumber(scanFile, item.byte_offset)
                  /\ \A j \in 1..(i - 1) :
                        scanOut.items[j].byte_offset < item.byte_offset

\* start_offset is 0, or the position just after a newline of the file.
OnLineBoundary(data, offset) ==
    offset = 0 \/ (offset <= Len(data) /\ data[offset] = NL)

\* The items of a sequence whose line starts after the position pos.
RECURSIVE StartingAfter(_, _)
StartingAfter(items, pos) ==
    IF items = <<>> THEN <<>>
    ELSE IF Head(items).byte_offset > pos
         THEN <<Head(items)>> \o StartingAfter(Tail(items), pos)
         ELSE StartingAfter(Tail(items), pos)

IsSuffix(s, t) == Len(s) <= Len(t) /\ s = SubSeq(t, Len(t) - Len(s) + 1, Len(t))

\* C24: a scan from a start_offset > 0 that is not on a line boundary yields
\* exactly the items that the scan from offset 0 yields for the lines starting
\* after start_offset, a suffix of the full scan's items.
C24_MidLineStartIsSuffix ==
    (scanPc = "scanned" /\ scanStart > 0 /\ ~OnLineBoundary(scanFile, scanStart)) =>
        /\ scanOut.items = StartingAfter(FullScan.items, scanStart)
        /\ IsSuffix(scanOut.items, FullScan.items)

\* The same, for the files whose scan from offset 0 does not raise.
MidLineStartIsSuffixUnlessRaised ==
    (/\ scanPc = "scanned" /\ scanStart > 0 /\ ~OnLineBoundary(scanFile, scanStart)
     /\ ~FullScan.raised) =>
        /\ ~scanOut.raised
        /\ scanOut.items = StartingAfter(FullScan.items, scanStart)
        /\ IsSuffix(scanOut.items, FullScan.items)

\* The position at which the read loop starts for a start_offset.
LoopStart(data, offset) == IF offset > 0 THEN readline(data, offset) ELSE 0

\* The line makes the read loop raise: a JSON value that is not an object, a
\* null message, or a content that extract_text_content cannot take.
RaisingLine(line) ==
    LET parsed == parse_jsonl_line(line)
    IN  \/ parsed.res = "raise"
        \/ /\ parsed.res = "data"
           /\ \/ parsed.data.message.t = "null"
              \/ extract_text_content(parsed.data.message.content).raised

\* C31: iter_new_messages terminates for every file and every start_offset >= 0:
\* each readline before the end of the file consumes at least one byte and
\* none goes past the end, the items yielded are at most the lines from the
\* loop's start, the scan raises only on a line (never for the end of the
\* data), and a start_offset at or beyond the end yields nothing.
C31_ScanTerminates ==
    /\ \A pos \in 0..(Len(scanFile) - 1) :
          /\ readline(scanFile, pos) > pos
          /\ readline(scanFile, pos) <= Len(scanFile)
    /\ scanPc = "scanned" =>
          /\ Len(scanOut.items) <=
                Cardinality({p \in LineStarts(scanFile) :
                                p >= LoopStart(scanFile, scanStart)})
          /\ scanOut.raised =>
                \E p \in LineStarts(scanFile) :
                    /\ p >= LoopStart(scanFile, scanStart)
                    /\ RaisingLine(LineAt(scanFile, p))
          /\ scanStart >= Len(scanFile) => scanOut = NoOut

\* A scan from beyond the end of a file that has an ingestible line.
C31_Witness ==
    /\ scanPc = "scanned"
    /\ scanStart > Len(scanFile)
    /\ IngestibleStarts(scanFile) # {}
    /\ scanOut = NoOut

\* A scan from inside the file that read to the end and yielded an item.
ScanReachedEnd ==
    /\ scanPc = "scanned"
    /\ scanStart > 0 /\ scanStart < Len(scanFile)
    /\ scanOut.items # <<>> /\ ~scanOut.raised

\* ------------------------------------------------ claims on the extractor
TextIndexes(blocks) == {i \in 1..Len(blocks) : blocks[i].type = "text"}

\* The texts of the text blocks among the first n blocks, in order, with a
\* newline between two consecutive ones.
RECURSIVE JoinedUpTo(_, _)
JoinedUpTo(blocks, n) ==
    IF n = 0 THEN <<>>
    ELSE IF blocks[n].type # "text" THEN JoinedUpTo(blocks, n - 1)
    ELSE IF TextIndexes(blocks) \cap 1..(n - 1) = {} THEN blocks[n].text
    ELSE JoinedUpTo(blocks, n - 1) \o <<"\n">> \o blocks[n].text

\* C12: extract_text_content returns a string content unchanged; for a list of
\* blocks it returns the texts of exactly the blocks of type text, in their
\* order, joined by newlines, and the other blocks contribute nothing.
C12_ExtractTextContent ==
    extracted.done =>
        /\ ~extracted.raised
        /\ content.t = "str" => extracted.text = content.s
        /\ content.t = "list" =>
              extracted.text = JoinedUpTo(content.blocks, Len(content.blocks))

\* A thinking block with text of its own between two text blocks.
C12_Witness ==
    /\ extracted.done
    /\ content = ListContent(<<Block("text", <<"x">>), Block("thinking", <<"y">>),
                               Block("text", <<"y">>)>>)
    /\ extracted.text = <<"x", "\n", "y">>

\* ------------------------------------------- claims on the coordinators
Stored(f, uuid) ==
    \E i \in 1..Len(db.rows) : db.rows[i].file_path = f /\ db.rows[i].uuid = uuid

\* C2: every ingestible record whose line lies entirely below the file's stored
\* last_byte_offset is in the vector store.
C2_OffsetNeverPastUnindexed ==
    \A f \in DOMAIN logs : \A p \in LineStarts(logs[f]) :
        (/\ Ingestible(LineAt(logs[f], p))
         /\ readline(logs[f], p) <= get_file_offset(stateFile, Project, f))
            => Stored(f, Uuid(LineAt(logs[f], p)))

\* C13: the store holds at most one row per message identifier: ingesting a
\* record again (the same file twice from offset 0) does not add a second row.
C13_AtMostOneVectorPerId ==
    \A i, j \in 1..Len(db.rows) :
        (db.rows[i].file_path = db.rows[j].file_path /\ db.rows[i].uuid = db.rows[j].uuid)
            => i = j

\* C18: when the store cannot be reached during an ingestion run, the
\* coordinator catches the error and reports it: the exception of
\* index_messages never leaves the coordinator uncaught.
C18_StoreFailureCaught == outcome # "store_uncaught"

\* C3: the state file changes only in the update step of a file whose batch
\* index_messages has returned for, with every message of the batch stored; a
\* run that ends before that leaves the state file as it was.
C3_UpdateOnlyAfterIndex ==
    [][stateFile' # stateFile =>
          /\ pc = "update"
          /\ indexed
          /\ \A i \in 1..Len(messages) : Stored(jsonl_file, messages[i].uuid)
          /\ \A f \in DOMAIN logs \ {jsonl_file} :
                get_file_offset(stateFile', Project, f)
                    = get_file_offset(stateFile, Project, f)]_vars

\* index_messages raised for a new file with an ingestible record: the run has
\* ended and the file is still untracked.
C3_Witness ==
    /\ pc = "idle"
    /\ failed = {"a.jsonl"}
    /\ ~stateFile.exists
    /\ ~iter_new_messages("a.jsonl", logs["a.jsonl"], 0).raised
    /\ iter_new_messages("a.jsonl", logs["a.jsonl"], 0).items # <<>>

\* C4: the offset a run records for a file is the file's size when it was scanned.
C4_RecordedOffsetIsScanEnd ==
    [][stateFile' # stateFile =>
          get_file_offset(stateFile', Project, jsonl_file) = scanEnd]_vars

\* C6: when a file's scan or index raised, the run still completed the loop
\* iteration of every other file of the project.
C6_FilesIndependent ==
    (pc = "idle" /\ failed # {}) =>
        \A g \in DOMAIN logs \ failed : g \in processed

\* C7: the stored last_byte_offset of a file never decreases.
C7_OffsetMonotone ==
    [][\A f \in DOMAIN logs :
          get_file_offset(stateFile', Project, f)
              >= get_file_offset(stateFile, Project, f)]_vars

\* A run is about to overwrite a positive stored offset with a larger one.
C7_Witness ==
    /\ pc = "update"
    /\ get_file_offset(stateFile, Project, jsonl_file) > 0
    /\ final_offset > get_file_offset(stateFile, Project, jsonl_file)

\* C25: when the scan of a file from its start offset yields no item, the run
\* goes on to the next file (or ends) without an index_messages call and
\* without an update_file_state call: the vector store and the state file,
\* with the file's entry or its absence, stay as they are.
C25_EmptyScanSkipsFile ==
    [][(pc = "scan" /\ ~Scanned.raised /\ Scanned.items = <<>>) =>
          /\ db' = db
          /\ stateFile' = stateFile
          /\ pc' \notin {"index", "stat", "update"}]_vars

\* A run has gone through a log that holds bytes but no ingestible record: the
\* file is still untracked and the store has no table.
C25_Witness ==
    /\ pc = "idle"
    /\ processed = {"a.jsonl"}
    /\ logs["a.jsonl"] # <<>>
    /\ ~stateFile.exists
    /\ db = NoTable

\* The same frame for the coordinators' runs: a step that writes the state
\* file keeps every tracked file and changes the entry of the current file only.
RunsChangeOneFile ==
    [][stateFile' # stateFile =>
          LET old == load(stateFile, Project).files
              new == load(stateFile', Project).files
          IN  /\ DOMAIN new = DOMAIN old \cup {jsonl_file}
              /\ \A g \in DOMAIN old \ {jsonl_file} : new[g] = old[g]]_vars

\* The file holds at position p a complete ingestible line.
CompleteLineAt(f, p) ==
    /\ p \in LineStarts(logs[f])
    /\ Ingestible(LineAt(logs[f], p))

\* C34: with incremental runs repeated fairly and no store failure, every
\* complete ingestible line of a log file is eventually in the vector store.
C34_EveryLineEventuallyStored ==
    \A p \in 0..(MaxLen - 1) :
        CompleteLineAt("a.jsonl", p)
            ~> (/\ CompleteLineAt("a.jsonl", p)
                /\ Stored("a.jsonl", Uuid(LineAt(logs["a.jsonl"], p))))

\* The same for the first line of the file, which every run scans until the
\* file's progress is recorded.
FirstLineEventuallyStored ==
    CompleteLineAt("a.jsonl", 0)
        ~> (/\ CompleteLineAt("a.jsonl", 0)
            /\ Stored("a.jsonl", Uuid(LineAt(logs["a.jsonl"], 0))))

\* C35: an incremental run that begins when an incremental run has ended and no
\* byte was appended since that run began indexes no message and leaves the
\* state file (offsets, counts, last_indexed) and the vector store as they are.
C35_SecondRunIsNoOp ==
    [][(runs.settled /\ runs'.op = "run" /\ ~full') =>
          /\ count' = 0
          /\ stateFile' = stateFile
          /\ clock' = clock
          /\ db' = db]_vars

\* A second incremental run over two tracked files indexed nothing; the store
\* holds the rows of the first.
C35_Witness ==
    /\ runs.op = "run" /\ runs.repeated /\ ~full
    /\ count = 0
    /\ db.rows # <<>>
    /\ stateFile.exists
    /\ DOMAIN stateFile.doc.files = {"a.jsonl", "b.jsonl"}

\* The indexed_count stored for a file, 0 for an untracked one.
IndexedCount(f) ==
    LET files == load(stateFile, Project).files
    IN  IF f \in DOMAIN files THEN files[f].indexed_count ELSE 0

\* C37: with no crash, under any sequence of incremental and full runs over
\* logs that only grow, the indexed_count stored for a file is at most the
\* number of ingestible records in the file.
C37_CountAtMostRecords ==
    \A f \in DOMAIN logs : IndexedCount(f) <= Cardinality(IngestibleStarts(logs[f]))

\* The same, while every run so far was incremental.
IncrementalCountAtMostRecords ==
    ~runs.forced =>
        \A f \in DOMAIN logs :
            IndexedCount(f) <= Cardinality(IngestibleStarts(logs[f]))

\* -------------------------------------------------- claims on the tracker
Expected(f) == IF hist[f].updated THEN hist[f].last ELSE 0

C20_CollectionNameStable ==
    /\ load(stateFile, Project).collection_name = default_collection_name(Project)
    /\ stateFile.exists =>
          stateFile.doc.collection_name = default_collection_name(Project)

\* The state file was written three times, for two files.
C20_Witness ==
    /\ stateFile.exists
    /\ clock = 4
    /\ DOMAIN stateFile.doc.files = {"a.jsonl", "b.jsonl"}

\* C29: a call update_file_state(project, f, ...) leaves the entry of every
\* other tracked file as it was and removes no file: the files tracked after
\* a step are those tracked before it, and the file updated in the step.
C29_UpdateChangesOneFile ==
    [][LET old == load(stateFile, Project).files
           new == load(stateFile', Project).files
       IN  /\ DOMAIN old \subseteq DOMAIN new
           /\ \A g \in DOMAIN old : hist'[g] = hist[g] => new[g] = old[g]
           /\ \A g \in DOMAIN new \ DOMAIN old : hist'[g].at = clock]_vars

\* Both files are tracked; a.jsonl was updated twice after b.jsonl, whose entry
\* is still the one written by its own call.
C29_Witness ==
    /\ stateFile.exists
    /\ DOMAIN stateFile.doc.files = {"a.jsonl", "b.jsonl"}
    /\ hist["b.jsonl"].at = 1
    /\ hist["a.jsonl"].at = 3
    /\ stateFile.doc.files["b.jsonl"]
          = [last_byte_offset |-> hist["b.jsonl"].last,
             indexed_count |-> hist["b.jsonl"].sum,
             last_indexed |-> 1]

\* The files that update_file_state was called for, and the sum of the
\* new_count arguments of the calls for the files names.
Updated == {f \in DOMAIN hist : hist[f].updated}

RECURSIVE SumOfCalls(_)
SumOfCalls(names) ==
    IF names = {} THEN 0
    ELSE LET name == CHOOSE n \in names : TRUE
         IN  hist[name].sum + SumOfCalls(names \ {name})

\* C33: after any sequence of update_file_state calls for a project, get_stats
\* reports the project, files_tracked equal to the number of distinct
\* filenames updated and total_indexed equal to the sum of the new_count
\* arguments of all the calls.
C33_StatsMatchCalls ==
    (got.op = "get_stats" /\ got.at = clock) =>
        /\ got.stats.project = Project
        /\ got.stats.files_tracked = Cardinality(Updated)
        /\ got.stats.total_indexed = SumOfCalls(DOMAIN hist)

\* get_stats after two calls for one file and one for the other, each with
\* new_count 1: two files tracked, three messages in total.
C33_Witness ==
    /\ got.op = "get_stats" /\ got.at = clock
    /\ hist["a.jsonl"].sum = 2 /\ hist["b.jsonl"].sum = 1
    /\ got.stats.files_tracked = 2
    /\ got.stats.total_indexed = 3

\* get_stats of a project with no state file: nothing tracked, nothing indexed.
StatsOfNewProject ==
    /\ got.op = "get_stats" /\ ~stateFile.exists
    /\ got.stats.files_tracked = 0 /\ got.stats.total_indexed = 0

\* C38: two different projects in use have different state directories (with
\* their state.json and vectors.db) and different default collection names,
\* and get_stats of a project that no update was made for reports nothing
\* tracked: updates made for another project are not seen through it.
C38_ProjectsShareNothing ==
    /\ \A p \in NamedProjects : \A q \in NamedProjects \ {p} :
          (dirs.calls[p] > 0 /\ dirs.calls[q] > 0) =>
              /\ project_dir(p) # project_dir(q)
              /\ default_collection_name(p) # default_collection_name(q)
    /\ (got.op = "get_stats" /\ got.at = clock /\ dirs.calls[got.stats.project] = 0) =>
          /\ got.stats.files_tracked = 0
          /\ got.stats.total_indexed = 0

\* The same for the projects whose names stay different as directory names:
\* get_stats of a project shows the updates made for it and for the projects
\* that share its directory, and no other.
SeparateDirsShareNothing ==
    (got.op = "get_stats" /\ got.at = clock) =>
        LET sharing == {p \in NamedProjects :
                           project_dir(p) = project_dir(got.stats.project)}
        IN  /\ got.stats.files_tracked
                  = (IF \E p \in sharing : dirs.calls[p] > 0 THEN 1 ELSE 0)
            /\ (\A p \in sharing \ {got.stats.project} : dirs.calls[p] = 0) =>
                  got.stats.total_indexed = dirs.calls[got.stats.project]

\* ------------------------------------------- claims on the two processes
BothReturned == \A p \in Processes : procs[p].pc = "returned"

\* The process that saved last had loaded before the other one saved.
Interleaved == procs[saves[2]].seen = 0

\* The calls whose effect the persisted state should show, in their order.
Applied == IF Interleaved THEN <<saves[2]>> ELSE saves

CallsFor(applied, name) == {i \in 1..Len(applied) : procs[applied[i]].filename = name}

RECURSIVE SumOfCounts(_, _)
SumOfCounts(applied, calls) ==
    IF calls = {} THEN 0
    ELSE LET i == CHOOSE i \in calls : TRUE
         IN  procs[applied[i]].new_count + SumOfCounts(applied, calls \ {i})

\* The files mapping that shows the effect of exactly the calls in applied, on
\* top of the state before the two calls.
FilesAfter(applied) ==
    LET old == load(before, Project).files
        names == DOMAIN old \cup {procs[applied[i]].filename : i \in 1..Len(applied)}
    IN  [name \in names |->
            LET calls == CallsFor(applied, name)
                last == CHOOSE i \in calls : \A j \in calls : j <= i
            IN  IF calls = {} THEN old[name]
                ELSE [last_byte_offset |-> procs[applied[last]].byte_offset,
                      indexed_count |->
                          (IF name \in DOMAIN old THEN old[name].indexed_count ELSE 0)
                              + SumOfCounts(applied, calls),
                      last_indexed |-> procs[applied[last]].at]]

\* C22: update_file_state is a load and a later save of the whole state.  When
\* the two processes' calls do not interleave the persisted state shows both
\* calls; when the process that saves last loaded before the other saved, both
\* calls have returned and the persisted state shows the last save alone: the
\* other call's offset and count are lost.
C22_InterleavedUpdateIsLost ==
    BothReturned => load(stateFile, Project).files = FilesAfter(Applied)

\* Both calls have returned, for different files of a project with no state
\* yet, and the file of the process that saved first is not tracked.
C22_Witness ==
    /\ BothReturned
    /\ Interleaved
    /\ ~before.exists
    /\ procs[saves[1]].filename # procs[saves[2]].filename
    /\ procs[saves[1]].new_count = 1
    /\ procs[saves[1]].filename \notin DOMAIN load(stateFile, Project).files

\* Both calls have returned, for the same tracked file, each with one new
\* record, and the stored count has grown by one only.
LostCountOnSameFile ==
    /\ BothReturned
    /\ before.exists
    /\ \A p \in Processes : procs[p].filename = "a.jsonl" /\ procs[p].new_count = 1
    /\ load(stateFile, Project).files["a.jsonl"].indexed_count
          = load(before, Project).files["a.jsonl"].indexed_count + 1

\* ---------------------------------------------------- claims on the stores
HasTable(project) == stores[project].exists

QueryOps == {"cmd_search", "server_search"}

\* C14: search on a store without the table returns the empty list, does not
\* raise and makes no call of the embedding provider; in a query over several
\* projects a project without a table contributes nothing, costs no embedding,
\* and the query answers as it would over the other projects alone.
C14_MissingTableIsEmpty ==
    /\ \A project \in DOMAIN stores : ~HasTable(project) =>
          \A query \in QueryTexts, limit \in 1..MaxLimit, t \in Thresholds :
              search(stores[project], query, limit, t)
                  = [results |-> <<>>, embedded |-> 0]
    /\ (call.op \in QueryOps /\ call.up /\ call.projects # <<>>) =>
          /\ ~call.raised
          /\ call.status = 0
          /\ call.message \in {"Found", "No results found.",
                               "No matching conversations found."}
          /\ call.embedded
                = Cardinality({k \in 1..Len(call.projects) : HasTable(call.projects[k])})
          /\ \A k \in 1..Len(call.results) : HasTable(call.results[k].project)
          /\ call.results
                = server_search(stores, SelectSeq(call.projects, HasTable),
                                call.query, call.limit, TRUE).results

\* A query over both projects, one of them never indexed, that found something.
C14_Witness ==
    /\ call.op \in QueryOps
    /\ call.projects = AllProjects
    /\ call.up
    /\ HasTable("p1") /\ ~HasTable("p2")
    /\ call.results # <<>>
    /\ call.embedded = 1

\* The store a manager-level call was made on, and the query's vector.
Called == stores[call.projects[1]]
Dist(k) == distance(Called.rows[k].embedding, embed(call.query))
Sim(k) == One - Dist(k)
Min(a, b) == IF a < b THEN a ELSE b

\* The rowids returned; a message's uuid is the rowid of its row.
Returned == {call.results[j].uuid : j \in 1..Len(call.results)}

\* Sets of limit rowids (all of them, when the table holds fewer) such that no
\* row left out is nearer to the query than a row taken.
Candidates ==
    {C \in SUBSET (1..Len(Called.rows)) :
        /\ Cardinality(C) = Min(call.limit, Len(Called.rows))
        /\ \A k \in C : \A m \in (1..Len(Called.rows)) \ C : Dist(k) <= Dist(m)}

\* C15: search returns exactly those of the (at most limit) nearest rows whose
\* similarity 1 - distance is at least score_threshold, each once and with
\* score 1 - distance, and never more than limit results.
C15_ThresholdFilter ==
    (call.op = "search" /\ Called.exists) =>
        /\ Len(call.results) <= call.limit
        /\ Cardinality(Returned) = Len(call.results)
        /\ \A j \in 1..Len(call.results) :
              /\ call.results[j].uuid \in 1..Len(Called.rows)
              /\ call.results[j].score = Sim(call.results[j].uuid)
        /\ \E C \in Candidates :
              Returned = {k \in C : Sim(k) >= call.score_threshold}

\* Two candidates: the one exactly at the threshold is returned, the one just
\* below it is not.
C15_Witness ==
    /\ call.op = "search"
    /\ call.limit = 2
    /\ Len(Called.rows) = 2
    /\ Sim(1) = call.score_threshold
    /\ Sim(2) = call.score_threshold - 1
    /\ Returned = {1}

Range(seq) == {seq[j] : j \in 1..Len(seq)}

\* The same query on the same store with another threshold.
SearchAt(t) == search(Called, call.query, call.limit, t).results

\* C16: for the same store, query and limit, a search with a higher threshold
\* returns a subset of the results of a search with a lower one, and no more
\* results.
C16_ThresholdMonotone ==
    call.op = "search" =>
        \A t \in Thresholds :
            /\ t <= call.score_threshold =>
                  /\ Range(call.results) \subseteq Range(SearchAt(t))
                  /\ Len(call.results) <= Len(SearchAt(t))
            /\ t >= call.score_threshold =>
                  /\ Range(SearchAt(t)) \subseteq Range(call.results)
                  /\ Len(SearchAt(t)) <= Len(call.results)

\* A search that returned one result where the lowest threshold gives two and
\* the highest none.
C16_Witness ==
    /\ call.op = "search"
    /\ call.score_threshold = DefaultThreshold
    /\ Len(call.results) = 1
    /\ Len(SearchAt(DefaultThreshold - 2)) = 2
    /\ Len(SearchAt(One)) = 0

NotFound == [points_count |-> 0, status |-> "not_found"]

\* C19: from drop_collection until the next index_messages or ensure_collection
\* call, get_collection_stats reports not_found with 0 points and search
\* returns the empty list; an index_messages call of a batch that returns
\* after a drop leaves exactly the rows of that batch.
C19_DropThenNotFound ==
    /\ \A project \in dropped :
          /\ get_collection_stats(stores[project]) = NotFound
          /\ \A query \in StoreTexts, limit \in 1..MaxLimit, t \in Thresholds :
                search(stores[project], query, limit, t).results = <<>>
    /\ (call.op = "get_collection_stats" /\ call.projects[1] \in dropped) =>
          call.stats = NotFound
    /\ (call.op = "search" /\ call.projects[1] \in dropped) => call.results = <<>>
    /\ (call.op = "index_messages" /\ call.wasDropped /\ call.batch # <<>>
        /\ ~call.raised) =>
          /\ get_collection_stats(Called)
                = [points_count |-> Len(call.batch), status |-> "ok"]
          /\ \A k \in 1..Len(call.batch) : Called.rows[k].uuid = call.batch[k].uuid

\* A table of two rows has just been dropped: its stats are not_found.
C19_Witness ==
    /\ call.op = "drop_collection"
    /\ call.count = 2
    /\ call.projects[1] \in dropped
    /\ get_collection_stats(Called) = NotFound

\* C27: the list that search returns is in non-increasing order of score.
C27_ResultsByScore ==
    call.op = "search" =>
        \A j \in 1..(Len(call.results) - 1) :
            call.results[j].score >= call.results[j + 1].score

\* Two results, the row inserted last first, with the higher score.
C27_Witness ==
    /\ call.op = "search"
    /\ Len(call.results) = 2
    /\ call.results[1].uuid = 2
    /\ call.results[2].uuid = 1
    /\ call.results[1].score > call.results[2].score

\* C28: index_messages with an empty list returns 0 and does not raise, makes
\* no embed_batch call, loads no model and leaves the store as it is, without
\* the table if there was none; embed_batch with an empty list returns the
\* empty list without a call of the model and without loading it.
C28_EmptyInputIsNoOp ==
    [][/\ (call'.op = "index_messages" /\ call'.batch = <<>>) =>
              /\ call'.count = 0
              /\ ~call'.raised
              /\ call'.embedded = 0
              /\ stores' = stores
              /\ embedder' = embedder
       /\ (call'.op = "embed_batch" /\ call'.texts = <<>>) =>
              /\ call'.embeddings = <<>>
              /\ call'.model_calls = 0
              /\ stores' = stores
              /\ embedder' = embedder]_vars

\* index_messages([]) has returned 0: there is still no table and no model.
C28_Witness ==
    /\ call.op = "index_messages"
    /\ call.batch = <<>>
    /\ call.count = 0
    /\ ~HasTable(call.projects[1])
    /\ embedder = NoModel

\* embed_batch([]) has returned []: there is still no model.
EmptyEmbedBatchLoadsNothing ==
    /\ call.op = "embed_batch"
    /\ call.texts = <<>>
    /\ call.embeddings = <<>>
    /\ embedder = NoModel

\* C30: a search or get_collection_stats call leaves the store as it is: it
\* creates no table, drops none and changes no row, with or without a table.
C30_QueriesReadOnly ==
    [][call'.op \in {"search", "get_collection_stats"} => stores' = stores]_vars

\* A search on a store whose table was never created: there is still no table.
C30_Witness ==
    /\ call.op = "search"
    /\ call.results = <<>>
    /\ ~HasTable(call.projects[1])
    /\ call.projects[1] \notin dropped

\* A search that returned a row of a table of two rows, which are still there.
SearchKeepsRows ==
    /\ call.op = "search"
    /\ Len(call.results) = 1
    /\ Len(Called.rows) = 2

\* The row that the last index_messages call stored for message i of its batch.
StoredFor(i) ==
    LET rows == stores[call.projects[1]].rows
    IN  rows[Len(rows) - Len(call.batch) + i]

Ellipsis == <<".", ".", ".">>

\* C32: every stored snippet is at most 300 characters long, is the first 300
\* characters of the content followed by an ellipsis exactly when the content
\* is longer than 300 characters, and is the content itself otherwise.
C32_SnippetAtMost300 ==
    (call.op = "index_messages" /\ ~call.raised) =>
        \A i \in 1..Len(call.batch) :
            LET text == call.batch[i].content
                snippet == StoredFor(i).snippet
            IN  /\ Len(snippet) <= SnippetLen
                /\ Len(text) > SnippetLen
                      <=> snippet = Take(text, SnippetLen) \o Ellipsis
                /\ Len(text) <= SnippetLen => snippet = text

\* The same, with the ellipsis counted on top of the 300 characters.
SnippetAtMost300AndEllipsis ==
    (call.op = "index_messages" /\ ~call.raised) =>
        \A i \in 1..Len(call.batch) :
            LET text == call.batch[i].content
                snippet == StoredFor(i).snippet
            IN  /\ Len(snippet) <= SnippetLen + Len(Ellipsis)
                /\ Len(text) > SnippetLen
                      <=> snippet = Take(text, SnippetLen) \o Ellipsis
                /\ Len(text) <= SnippetLen => snippet = text

\* A content of exactly 300 characters was stored.
SnippetOfFullLength ==
    /\ call.op = "index_messages" /\ ~call.raised
    /\ \E i \in 1..Len(call.batch) : Len(call.batch[i].content) = SnippetLen

\* C23: for any calls of embed and embed_batch in one process, from one thread
\* or from several, the model is constructed at most once and all the calls
\* embed with the same model object.
C23_ModelConstructedOnce ==
    /\ embedder.constructed <= 1
    /\ Cardinality(used) <= 1

\* The same, for the calls of one thread while the other makes none.
OneThreadConstructsOnce ==
    (\E t \in Threads : threads[t].calls = 0) =>
        /\ embedder.constructed <= 1
        /\ Cardinality(used) <= 1

\* C21: when embed_batch returns a number of vectors different from the number
\* of messages, index_messages raises and returns no count; a call that
\* returns a count returns the number of messages, each with a vector and a
\* row of its own at the end of the table.
C21_MismatchRaises ==
    (call.op = "index_messages" /\ call.batch # <<>>) =>
        /\ Len(call.embeddings) # Len(call.batch) => (call.raised /\ call.count = 0)
        /\ ~call.raised =>
              /\ call.count = Len(call.batch)
              /\ Len(call.embeddings) = Len(call.batch)
              /\ Len(Called.rows) >= Len(call.batch)
              /\ \A k \in 1..Len(call.batch) :
                    Called.rows[Len(Called.rows) - Len(call.batch) + k].uuid
                        = call.batch[k].uuid

\* Two messages that sqlite3 can bind and one vector: the call raised.
C21_Witness ==
    /\ call.op = "index_messages"
    /\ Len(call.batch) = 2
    /\ \A k \in 1..2 : bindable(call.batch[k])
    /\ Len(call.embeddings) = 1
    /\ call.raised
    /\ call.count = 0

\* What get_collection_stats should report for a project.
StatsOfSucceeded(project) ==
    IF ~HasTable(project) THEN NotFound
    ELSE [points_count |-> tally[project].succeeded, status |-> "ok"]

\* C26: after any sequence of ensure_collection, index_messages and
\* drop_collection calls, get_collection_stats reports not_found with 0 points
\* exactly when the table does not exist, and otherwise ok with the number of
\* messages of the index_messages calls that returned since the table was last
\* created; ensure_collection does not raise and changes no count.
C26_StatsCountSucceeded ==
    /\ \A project \in DOMAIN stores :
          get_collection_stats(stores[project]) = StatsOfSucceeded(project)
    /\ call.op = "get_collection_stats" =>
          call.stats = StatsOfSucceeded(call.projects[1])
    /\ call.op = "ensure_collection" => ~call.raised

\* The same with the rows counted that the calls that raised have inserted.
StatsCountInserted ==
    /\ \A project \in DOMAIN stores :
          get_collection_stats(stores[project]) =
              IF ~HasTable(project) THEN NotFound
              ELSE [points_count |-> tally[project].succeeded + tally[project].partial,
                    status |-> "ok"]
    /\ call.op = "ensure_collection" => ~call.raised

\* ensure_collection on a table that exists leaves its rows as they are.
EnsureCollectionKeepsRows ==
    [][call'.op = "ensure_collection" =>
          \A project \in DOMAIN stores :
              /\ stores'[project].exists
              /\ stores'[project].rows = stores[project].rows]_vars

\* What a connection other than the manager's reads from the database file.
Committed(table) == Take(table.rows, table.committed)

\* C36: the rows that an index_messages call inserted before it raised never
\* become visible in the store: they are never committed to the database
\* file, whatever the manager is called for afterwards.
C36_FailedRowsNeverVisible ==
    \A project \in DOMAIN stores :
        \A k \in 1..Len(Committed(stores[project])) :
            Committed(stores[project])[k].uuid \notin tally[project].failed

\* The rows that are not committed are those of the calls that raised: until
\* a later call commits or drops them, the manager's own connection alone
\* reads them.
UncommittedRowsAreFailedOnes ==
    \A project \in DOMAIN stores :
        \A k \in (stores[project].committed + 1)..Len(stores[project].rows) :
            stores[project].rows[k].uuid \in tally[project].failed

\* drop_collection leaves no row of a failed batch: the table is gone for
\* every connection.
DropDiscardsFailedRows ==
    call.op = "drop_collection" =>
        /\ stores[call.projects[1]] = NoTable
        /\ tally[call.projects[1]].failed = {}

\* drop_collection was called for a table that held the rows of a failed batch.
DroppedFailedRows ==
    /\ call.op = "drop_collection"
    /\ call.count > 0
    /\ stores[call.projects[1]] = NoTable

\* --------------------------------------------------- claims on the queries
\* Every in-scope project's search results, each with its project.
ResultsOf(project) ==
    Range(search(stores[project], call.query, call.limit, DefaultThreshold).results)

Union ==
    UNION {{[project |-> project, r |-> r] : r \in ResultsOf(project)} :
              project \in Range(call.projects)}

\* C17: a query returns the top limit of the union of the in-scope projects'
\* results: results of the union, each once, as many as limit allows, sorted by
\* score from the highest down, and no result left out scores higher than one
\* returned.
C17_MergedTopLimit ==
    (call.op \in QueryOps /\ call.up /\ call.projects # <<>>) =>
        /\ Len(call.results) = Min(call.limit, Cardinality(Union))
        /\ Range(call.results) \subseteq Union
        /\ Cardinality(Range(call.results)) = Len(call.results)
        /\ \A j \in 1..(Len(call.results) - 1) :
              call.results[j].r.score >= call.results[j + 1].r.score
        /\ \A u \in Union \ Range(call.results) : \A j \in 1..Len(call.results) :
              u.r.score <= call.results[j].r.score

\* Four results in the union and a limit of two: the best is of the second
\* project, the next of the first.
C17_Witness ==
    /\ call.op \in QueryOps
    /\ call.up
    /\ call.limit = 2
    /\ Cardinality(Union) = 4
    /\ Len(call.results) = 2
    /\ call.results[1].project = "p2"
    /\ call.results[2].project = "p1"
    /\ call.results[1].r.score > call.results[2].r.score

\* The query of cmd_search when the store cannot be reached: the error is
\* reported with status 1, which is not the outcome of a query that found
\* nothing.
UnreachableQueryNotConflated ==
    (call.op = "cmd_search" /\ ~call.up /\ call.projects # <<>>) =>
        /\ ~call.raised
        /\ call.message = "Error: Could not connect"
        /\ call.status = 1
        /\ <<call.message, call.status>> # <<"No results found.", 0>>

====
